---- MODULE Spec2Model ----
(***************************************************************************)
(* Model of the ts-morph-analyzer scripts: the dependency graph of         *)
(* analyze-exports.ts (buildDependencyGraph, findCircularDeps), the        *)
(* smell detector code-smells.ts (its checks and main) and the call       *)
(* hierarchy tracer trace-calls.ts (getCallers, getCallees, main).         *)
(*                                                                         *)
(* A path string is a sequence of tokens: names ("a", "index"), the        *)
(* separator "/", the segments "." and "..", and the extensions ".ts",     *)
(* ".tsx", ".js", ".jsx". String concatenation is \o on token sequences.   *)
(***************************************************************************)
EXTENDS Integers, Sequences, FiniteSets, TLC

VARIABLES
    \* ---- dependency graph engine (analyze-exports.ts, code-smells.ts)
    project,        \* project.getSourceFiles(): sequence of [path, imports]
    pc,             \* position of the run
    graph,          \* Map<string, Set<string>> in insertion order
    visited,        \* Set<string>
    recursionStack, \* Set<string>
    pathStack,      \* string[] (path in findCircularDeps)
    frames,         \* call stack of dfs: <<[node, i]>>, i = deps already iterated
    keyIdx,         \* graph.keys() entries already iterated by the outer loop
    cycles,         \* result of findCircularDeps
    reports,        \* result of checkCircularDeps
    \* ---- call hierarchy tracer (trace-calls.ts)
    argv,           \* the command line: [name, up, down, depth, tree]
    program,        \* the call sites of the loaded project, in source order
    tpc,            \* position of main
    fn,             \* the declaration findFunctionByName returned
    callers,        \* the tree getCallers returned
    callees,        \* the tree getCallees returned
    traced,         \* the directions main has traced
    out,            \* lines written by console.log
    exitCode,       \* process exit status; -1 while running
    \* ---- smell detector (code-smells.ts main)
    args,           \* the command line of code-smells.ts
    sourceFiles,    \* project.getSourceFiles() with their declarations
    spc,            \* position of main
    fileIdx,        \* source files the loop of main has passed
    allReports,     \* SmellReport[] collected by main
    status,         \* process exit status; -1 while running
    \* ---- signature extractor (extract-signatures.ts main)
    xoptions,       \* ExtractOptions
    xfiles,         \* project.getSourceFiles(): their statements in source order
    xpc,            \* position of main
    xIdx,           \* source files the loop of main has passed
    allSignatures,  \* SignatureInfo[] collected by main
    listing,        \* what console.log wrote, one entry per call
    xstatus         \* process exit status; -1 while running

depVars == <<project, pc, graph, visited, recursionStack, pathStack, frames,
             keyIdx, cycles, reports>>

traceVars == <<argv, program, tpc, fn, callers, callees, traced, out, exitCode>>

smellVars == <<args, sourceFiles, spc, fileIdx, allReports, status>>

extractVars == <<xoptions, xfiles, xpc, xIdx, allSignatures, listing, xstatus>>

vars == <<depVars, traceVars, smellVars, extractVars>>

----------------------------------------------------------------------------
(* Bounds of the model *)

\* import declarations in one project of the graph-shape family
MaxImports == 3

\* call sites in one traced program
MaxSites == 3

\* largest --depth given on the command line
MaxDepthArg == 3

----------------------------------------------------------------------------
(* Generic helpers on sequences *)

Range(s) == {s[i] : i \in 1..Len(s)}

Last(s) == s[Len(s)]

Front(s) == SubSeq(s, 1, Len(s) - 1)

NoDup(s) == \A i, j \in 1..Len(s) : i # j => s[i] # s[j]

\* Array.prototype.indexOf, 1-based; 0 stands for -1
IndexOf(s, x) ==
    IF x \in Range(s) THEN CHOOSE i \in 1..Len(s) : s[i] = x /\ \A j \in 1..(i - 1) : s[j] # x
    ELSE 0

\* s with x appended unless present: Set.prototype.add keeps insertion order
SetAdd(s, x) == IF x \in Range(s) THEN s ELSE Append(s, x)

\* Array.prototype.join on token sequences
RECURSIVE JoinWith(_, _)
JoinWith(ss, sep) ==
    IF ss = <<>> THEN <<>>
    ELSE IF Len(ss) = 1 THEN ss[1]
    ELSE ss[1] \o sep \o JoinWith(Tail(ss), sep)

----------------------------------------------------------------------------
(* node's path module on token sequences *)

SEP == "/"

\* process.cwd()
Cwd == <<"/", "w">>

IsAbsolute(p) == p # <<>> /\ p[1] = SEP

\* String.prototype.split on a one-token separator
RECURSIVE SplitOn(_, _)
SplitOn(p, sep) ==
    IF sep \notin Range(p) THEN <<p>>
    ELSE LET i == IndexOf(p, sep)
         IN  <<SubSeq(p, 1, i - 1)>> \o SplitOn(SubSeq(p, i + 1, Len(p)), sep)

\* the segments of p between separators (empty segments included)
Split(p) == SplitOn(p, SEP)

\* resolution of "." and ".." over the segments, left to right
RECURSIVE NormSegs(_, _, _)
NormSegs(segs, acc, abs) ==
    IF segs = <<>> THEN acc
    ELSE LET s == Head(segs)
             rest == Tail(segs)
         IN  IF s = <<>> \/ s = <<".">> THEN NormSegs(rest, acc, abs)
             ELSE IF s = <<"..">>
                  THEN IF acc # <<>> /\ Last(acc) # <<"..">>
                       THEN NormSegs(rest, Front(acc), abs)
                       ELSE IF abs THEN NormSegs(rest, acc, abs)
                       ELSE NormSegs(rest, Append(acc, s), abs)
             ELSE NormSegs(rest, Append(acc, s), abs)

\* path.normalize
Normalize(p) ==
    LET abs == IsAbsolute(p)
        body == JoinWith(NormSegs(Split(p), <<>>, abs), <<SEP>>)
    IN  IF abs THEN <<SEP>> \o body
        ELSE IF body = <<>> THEN <<".">>
        ELSE body

\* path.join(a, b)
PathJoin(a, b) == Normalize(a \o <<SEP>> \o b)

\* path.dirname
Dirname(p) ==
    IF SEP \notin Range(p) THEN <<".">>
    ELSE LET segs == Split(p)
             dir == JoinWith(Front(segs), <<SEP>>)
         IN  IF dir = <<>> THEN <<SEP>> ELSE dir

\* path.resolve(p)
PathResolve(p) == IF IsAbsolute(p) THEN Normalize(p) ELSE Normalize(Cwd \o <<SEP>> \o p)

RECURSIVE CommonPrefixLen(_, _)
CommonPrefixLen(a, b) ==
    IF a = <<>> \/ b = <<>> \/ Head(a) # Head(b) THEN 0
    ELSE 1 + CommonPrefixLen(Tail(a), Tail(b))

\* path.relative(from, to) on absolute paths
PathRelative(from, to) ==
    LET f == NormSegs(Split(from), <<>>, TRUE)
        t == NormSegs(Split(to), <<>>, TRUE)
        n == CommonPrefixLen(f, t)
        ups == [i \in 1..(Len(f) - n) |-> <<"..">>]
    IN  JoinWith(ups \o SubSeq(t, n + 1, Len(t)), <<SEP>>)

\* String.prototype.startsWith(".")
StartsWithDot(s) == s # <<>> /\ s[1] \in {".", "..", ".ts", ".tsx", ".js", ".jsx"}

\* String.prototype.startsWith("/")
StartsWithSlash(s) == s # <<>> /\ s[1] = SEP

----------------------------------------------------------------------------
(* The project: source files with their import declarations *)

\* a source file path below the working directory
File(rel) == Cwd \o <<SEP>> \o rel

\* a SourceFile: its absolute path and its import declarations in source
\* order; names = number of default, namespace and named imports (0 for a
\* side-effect import such as  import "./b")
SourceFileOf(rel, imports) == [path |-> File(rel), imports |-> imports]

\* project.getSourceFile(absolutePath)
GetSourceFile(proj, abs) == \E i \in 1..Len(proj) : proj[i].path = abs

\* Map.prototype.get; <<>> stands for undefined
MapGet(g, key) ==
    IF \E i \in 1..Len(g) : g[i].file = key
    THEN g[CHOOSE i \in 1..Len(g) : g[i].file = key].deps
    ELSE <<>>

MapHas(g, key) == \E i \in 1..Len(g) : g[i].file = key

\* Map.prototype.set: a present key keeps its position
MapSet(g, key, deps) ==
    IF MapHas(g, key)
    THEN [i \in 1..Len(g) |-> IF g[i].file = key THEN [file |-> key, deps |-> deps] ELSE g[i]]
    ELSE Append(g, [file |-> key, deps |-> deps])

\* graph.keys()
MapKeys(g) == [i \in 1..Len(g) |-> g[i].file]

----------------------------------------------------------------------------
(* analyze-exports.ts *)

\* getImportsFromSourceFile: the imports that bind at least one name
getImportsFromSourceFile(sf) ==
    LET kept == SelectSeq(sf.imports, LAMBDA imp : imp.names > 0)
    IN  [i \in 1..Len(kept) |-> [module |-> kept[i].spec, names |-> kept[i].names]]

\* main: the ModuleInfo list built from project.getSourceFiles()
ModulesOf(proj) ==
    [i \in 1..Len(proj) |->
        [file |-> PathRelative(Cwd, proj[i].path),
         imports |-> getImportsFromSourceFile(proj[i])]]

\* the inner loop of buildDependencyGraph over mod.imports
RECURSIVE ModuleDeps(_, _, _)
ModuleDeps(file, imports, deps) ==
    IF imports = <<>> THEN deps
    ELSE LET imp == Head(imports)
         IN  IF StartsWithDot(imp.module) \/ StartsWithSlash(imp.module)
             THEN LET basePath == Dirname(file)
                      resolvedPath == Normalize(PathJoin(basePath, imp.module))
                  IN  ModuleDeps(file, Tail(imports), SetAdd(deps, resolvedPath))
             ELSE ModuleDeps(file, Tail(imports), deps)

\* a builder that records only the modules that have local dependencies
RECURSIVE buildGraphOfImporters(_, _)
buildGraphOfImporters(modules, g) ==
    IF modules = <<>> THEN g
    ELSE LET mod == Head(modules)
             deps == ModuleDeps(mod.file, mod.imports, <<>>)
         IN  buildGraphOfImporters(Tail(modules),
                                   IF deps = <<>> THEN g ELSE MapSet(g, mod.file, deps))

RECURSIVE buildDependencyGraph(_, _)
buildDependencyGraph(modules, g) ==
    IF modules = <<>> THEN g
    ELSE LET mod == Head(modules)
         IN  buildDependencyGraph(Tail(modules),
                                  MapSet(g, mod.file, ModuleDeps(mod.file, mod.imports, <<>>)))

----------------------------------------------------------------------------
(* code-smells.ts: checkCircularDeps, graph construction *)

Exts ==
    << <<".ts">>, <<".tsx">>, <<".js">>, <<".jsx">>,
       <<SEP, "index", ".ts">>, <<SEP, "index", ".tsx">>, <<SEP, "index", ".js">> >>

\* the probing loop: the first extension whose file is in the project
ProbeExts(proj, resolvedPath) ==
    LET hits == {i \in 1..Len(Exts) : GetSourceFile(proj, PathResolve(resolvedPath \o Exts[i]))}
    IN  IF hits = {} THEN resolvedPath
        ELSE resolvedPath \o Exts[CHOOSE i \in hits : \A j \in hits : i <= j]

\* the loop over sourceFile.getImportDeclarations()
RECURSIVE SmellDeps(_, _, _, _)
SmellDeps(proj, filePath, imports, deps) ==
    IF imports = <<>> THEN deps
    ELSE LET moduleSpecifier == Head(imports).spec
         IN  IF StartsWithDot(moduleSpecifier) \/ StartsWithSlash(moduleSpecifier)
             THEN LET basePath == Dirname(filePath)
                      resolvedPath == Normalize(PathJoin(basePath, moduleSpecifier))
                  IN  SmellDeps(proj, filePath, Tail(imports),
                                SetAdd(deps, ProbeExts(proj, resolvedPath)))
             ELSE SmellDeps(proj, filePath, Tail(imports), deps)

RECURSIVE SmellGraph(_, _, _)
SmellGraph(proj, files, g) ==
    IF files = <<>> THEN g
    ELSE LET sourceFile == Head(files)
             filePath == PathRelative(Cwd, sourceFile.path)
         IN  SmellGraph(proj, Tail(files),
                        MapSet(g, filePath, SmellDeps(proj, filePath, sourceFile.imports, <<>>)))

\* the separator of cycle.join(" -> ") (an arrow glyph in the source)
ARROW == " -> "

\* a report whose details leave out the node the cycle starts from
CycleReportOpenPath(cycle) ==
    [type |-> "circular-dependency",
     severity |-> "error",
     file |-> cycle[1],
     message |-> <<"Circular dependency detected">>,
     details |-> JoinWith(Tail(cycle), <<ARROW>>)]

\* the SmellReport pushed for one cycle
CycleReport(cycle) ==
    [type |-> "circular-dependency",
     severity |-> "error",
     file |-> cycle[1],
     message |-> <<"Circular dependency detected">>,
     details |-> JoinWith(cycle, <<ARROW>>)]


----------------------------------------------------------------------------
(* trace-calls.ts: the loaded project as the tracer sees it *)

\* null: no declaration
NoDecl == [name |-> "", file |-> <<>>, line |-> 0]

\* the function declarations of the project: two in m.ts, one in n.ts
DeclF == [name |-> "f", file |-> File(<<"m", ".ts">>), line |-> 1]

DeclG == [name |-> "g", file |-> File(<<"m", ".ts">>), line |-> 10]

DeclH == [name |-> "h", file |-> File(<<"n", ".ts">>), line |-> 1]

DeclSeq == <<DeclF, DeclG, DeclH>>

Decls == Range(DeclSeq)

\* A call site: an expression that names declaration def (NoDecl when its
\* symbol has no declaration) by calledName, inside the body of the named
\* function in (NoDecl at top level); arrow = an arrow function lies between
\* the expression and in.
CallSite(in, def, arrow, calledName) ==
    [in |-> in, def |-> def, arrow |-> arrow, calledName |-> calledName]

\* node.getName() || "(anonymous)"
NameOf(d) == IF d.name = "" THEN "(anonymous)" ELSE d.name

\* `${file}:${name}`
KeyOf(file, name) == file \o <<":", name>>

\* node.findReferencesAsNodes() without the definition itself, in source order
ReferencesTo(prog, node) == SelectSeq(prog, LAMBDA site : site.def = node)

\* the call expressions among the descendants of node.getBody()
CallsIn(prog, node) == SelectSeq(prog, LAMBDA site : site.in = node)

\* ref.getFirstAncestor(function declaration, method declaration or arrow
\* function): its kind and, for a declaration, the declaration
FirstAncestor(ref) ==
    IF ref.arrow THEN [kind |-> "ArrowFunction", decl |-> NoDecl]
    ELSE IF ref.in # NoDecl THEN [kind |-> "FunctionDeclaration", decl |-> ref.in]
    ELSE [kind |-> "none", decl |-> NoDecl]

CallNode(name, file, line, children) ==
    [name |-> name, file |-> file, line |-> line, children |-> children]

----------------------------------------------------------------------------
(* trace-calls.ts: getCallers and getCallees *)

RECURSIVE getCallers(_, _, _, _, _)
RECURSIVE CallersOfRefs(_, _, _, _, _, _)

\* a loop that emits a caller already visited as a node without children
RECURSIVE CallersWithVisitedLeaves(_, _, _, _, _, _)
CallersWithVisitedLeaves(prog, refs, depth, maxDepth, visitedKeys, acc) ==
    IF refs = <<>> THEN [nodes |-> acc, visited |-> visitedKeys]
    ELSE LET containingFn == FirstAncestor(Head(refs))
         IN  IF containingFn.kind = "FunctionDeclaration"
             THEN LET callerName == NameOf(containingFn.decl)
                      callerFile == PathRelative(Cwd, containingFn.decl.file)
                      callerKey == KeyOf(containingFn.decl.file, callerName)
                      sub == IF callerKey \notin visitedKeys
                             THEN getCallers(prog, containingFn.decl, depth + 1, maxDepth,
                                             visitedKeys)
                             ELSE [nodes |-> <<>>, visited |-> visitedKeys]
                  IN  CallersWithVisitedLeaves(prog, Tail(refs), depth, maxDepth, sub.visited,
                          Append(acc, CallNode(callerName, callerFile,
                                               containingFn.decl.line, sub.nodes)))
             ELSE CallersWithVisitedLeaves(prog, Tail(refs), depth, maxDepth, visitedKeys, acc)

\* the loop of getCallers over the references; visitedKeys is the one Set
\* shared by the whole upward trace
CallersOfRefs(prog, refs, depth, maxDepth, visitedKeys, acc) ==
    IF refs = <<>> THEN [nodes |-> acc, visited |-> visitedKeys]
    ELSE LET containingFn == FirstAncestor(Head(refs))
         IN  IF containingFn.kind = "FunctionDeclaration"
             THEN LET callerName == NameOf(containingFn.decl)
                      callerFile == PathRelative(Cwd, containingFn.decl.file)
                      callerKey == KeyOf(containingFn.decl.file, callerName)
                  IN  IF callerKey \notin visitedKeys
                      THEN LET sub == getCallers(prog, containingFn.decl, depth + 1,
                                                 maxDepth, visitedKeys)
                           IN  CallersOfRefs(prog, Tail(refs), depth, maxDepth, sub.visited,
                                   Append(acc, CallNode(callerName, callerFile,
                                                        containingFn.decl.line, sub.nodes)))
                      ELSE CallersOfRefs(prog, Tail(refs), depth, maxDepth, visitedKeys, acc)
             ELSE CallersOfRefs(prog, Tail(refs), depth, maxDepth, visitedKeys, acc)

getCallers(prog, node, depth, maxDepth, visitedKeys) ==
    IF depth >= maxDepth THEN [nodes |-> <<>>, visited |-> visitedKeys]
    ELSE LET nodeKey == KeyOf(node.file, NameOf(node))
         IN  IF nodeKey \in visitedKeys THEN [nodes |-> <<>>, visited |-> visitedKeys]
             ELSE CallersOfRefs(prog, ReferencesTo(prog, node), depth, maxDepth,
                                visitedKeys \cup {nodeKey}, <<>>)

RECURSIVE getCallees(_, _, _, _, _)
RECURSIVE CalleesOfCalls(_, _, _, _, _, _)

\* a callback that gives up at the first call it cannot resolve
CalleesUntilUnresolved(prog, calls, depth, maxDepth, visitedKeys, acc) ==
    IF calls = <<>> THEN acc
    ELSE LET calledName == Head(calls).calledName
             def == Head(calls).def
         IN  IF calledName # "" /\ def # NoDecl
             THEN LET calleeFile == PathRelative(Cwd, def.file)
                      calleeKey == KeyOf(def.file, calledName)
                  IN  IF calleeKey \notin visitedKeys
                      THEN CalleesOfCalls(prog, Tail(calls), depth, maxDepth, visitedKeys,
                               Append(acc, CallNode(calledName, calleeFile, def.line,
                                          getCallees(prog, def, depth + 1, maxDepth, visitedKeys))))
                      ELSE CalleesOfCalls(prog, Tail(calls), depth, maxDepth, visitedKeys, acc)
             ELSE acc

\* the forEachDescendant callback of getCallees over the call expressions;
\* every recursive call receives its own copy, new Set(visited)
CalleesOfCalls(prog, calls, depth, maxDepth, visitedKeys, acc) ==
    IF calls = <<>> THEN acc
    ELSE LET calledName == Head(calls).calledName
             def == Head(calls).def
         IN  IF calledName # "" /\ def # NoDecl
             THEN LET calleeFile == PathRelative(Cwd, def.file)
                      calleeKey == KeyOf(def.file, calledName)
                  IN  IF calleeKey \notin visitedKeys
                      THEN CalleesOfCalls(prog, Tail(calls), depth, maxDepth, visitedKeys,
                               Append(acc, CallNode(calledName, calleeFile, def.line,
                                          getCallees(prog, def, depth + 1, maxDepth, visitedKeys))))
                      ELSE CalleesOfCalls(prog, Tail(calls), depth, maxDepth, visitedKeys, acc)
             ELSE CalleesOfCalls(prog, Tail(calls), depth, maxDepth, visitedKeys, acc)

\* a trace that stops one level early
getCalleesOneLevelShort(prog, node, depth, maxDepth, visitedKeys) ==
    IF depth + 1 >= maxDepth THEN <<>>
    ELSE LET nodeKey == KeyOf(node.file, NameOf(node))
         IN  IF nodeKey \in visitedKeys THEN <<>>
             ELSE CalleesOfCalls(prog, CallsIn(prog, node), depth, maxDepth,
                                 visitedKeys \cup {nodeKey}, <<>>)

getCallees(prog, node, depth, maxDepth, visitedKeys) ==
    IF depth >= maxDepth THEN <<>>
    ELSE LET nodeKey == KeyOf(node.file, NameOf(node))
         IN  IF nodeKey \in visitedKeys THEN <<>>
             ELSE CalleesOfCalls(prog, CallsIn(prog, node), depth, maxDepth,
                                 visitedKeys \cup {nodeKey}, <<>>)

----------------------------------------------------------------------------
(* trace-calls.ts: rendering *)

DirLabel(direction) == IF direction = "up" THEN "called by" ELSE "calls"

\* `${dirLabel}: ${node.name} (${node.file}:${node.line})`
NodeText(node, direction) ==
    <<DirLabel(direction), ": ", node.name, " (">> \o node.file
        \o <<":", ToString(node.line), ")">>

\* String.prototype.repeat
Repeat(token, n) == [i \in 1..n |-> token]

RECURSIVE printTree(_, _, _, _)

\* a renderer that prints the children under their parent's own prefix
printTreeSamePrefix(nodes, prefix, isLast, direction) ==
    IF nodes = <<>> THEN <<>>
    ELSE LET node == Head(nodes)
             isLastNode == Tail(nodes) = <<>>
             connector == IF isLastNode THEN "+-- " ELSE "|-- "
         IN  <<prefix \o <<connector>> \o NodeText(node, direction)>>
             \o (IF Len(node.children) > 0
                 THEN printTree(node.children, prefix, isLastNode, direction)
                 ELSE <<>>)
             \o printTree(Tail(nodes), prefix, isLast, direction)

\* the lines printTree writes; the connectors stand for the box-drawing ones
printTree(nodes, prefix, isLast, direction) ==
    IF nodes = <<>> THEN <<>>
    ELSE LET node == Head(nodes)
             isLastNode == Tail(nodes) = <<>>
             connector == IF isLastNode THEN "+-- " ELSE "|-- "
             childPrefix == IF isLastNode THEN "    " ELSE "|   "
         IN  <<prefix \o <<connector>> \o NodeText(node, direction)>>
             \o (IF Len(node.children) > 0
                 THEN printTree(node.children, Append(prefix, childPrefix), isLastNode, direction)
                 ELSE <<>>)
             \o printTree(Tail(nodes), prefix, isLast, direction)

\* the lines printFlat writes
RECURSIVE printFlat(_, _, _)
printFlat(nodes, indent, direction) ==
    IF nodes = <<>> THEN <<>>
    ELSE LET node == Head(nodes)
         IN  <<Repeat("  ", indent) \o NodeText(node, direction)>>
             \o (IF Len(node.children) > 0
                 THEN printFlat(node.children, indent + 1, direction)
                 ELSE <<>>)
             \o printFlat(Tail(nodes), indent, direction)

----------------------------------------------------------------------------
(* trace-calls.ts: main *)

\* the command line: the target file:function, --up, --down, --depth N
\* (depth 0: the option is absent) and --tree
NoArgv == [file |-> <<>>, name |-> "", up |-> FALSE, down |-> FALSE, depth |-> 0,
           tree |-> FALSE]

\* options.maxDepth before --depth is read
DefaultMaxDepth == 3

\* options.direction
Direction(a) == IF a.down THEN (IF a.up THEN "both" ELSE "down") ELSE "up"

\* options.maxDepth
MaxDepthOf(a) == IF a.depth # 0 THEN a.depth ELSE DefaultMaxDepth

\* a lookup that falls back on the first declaration of the project
findFunctionOrFirst(filePath, functionName) ==
    IF \E d \in Decls : d.file = filePath /\ d.name = functionName
    THEN CHOOSE d \in Decls : d.file = filePath /\ d.name = functionName
    ELSE DeclF

\* findFunctionByName: the function or method of that name in the file
findFunctionByName(filePath, functionName) ==
    IF \E d \in Decls : d.file = filePath /\ d.name = functionName
    THEN CHOOSE d \in Decls : d.file = filePath /\ d.name = functionName
    ELSE NoDecl

\* what main prints for one direction's tree
Rendered(nodes, direction, none) ==
    IF Len(nodes) = 0 THEN <<none>>
    ELSE IF argv.tree THEN printTree(nodes, <<>>, TRUE, direction)
    ELSE printFlat(nodes, 1, direction)

\* main up to the header line, the function found
FunctionFound ==
    /\ tpc = "main"
    /\ findFunctionByName(PathResolve(argv.file), argv.name) # NoDecl
    /\ fn' = findFunctionByName(PathResolve(argv.file), argv.name)
    /\ out' = Append(out, <<argv.name, " (">>
                          \o PathRelative(Cwd, PathResolve(argv.file))
                          \o <<":", ToString(fn'.line), ")">>)
    /\ tpc' = IF Direction(argv) \in {"up", "both"} THEN "up" ELSE "down"
    /\ UNCHANGED <<argv, program, callers, callees, traced, exitCode>>
    /\ UNCHANGED <<depVars, smellVars, extractVars>>

\* main: if (!fn) process.exit(1)
FunctionNotFound ==
    /\ tpc = "main"
    /\ findFunctionByName(PathResolve(argv.file), argv.name) = NoDecl
    /\ exitCode' = 1
    /\ tpc' = "exit"
    /\ UNCHANGED <<argv, program, fn, callers, callees, traced, out>>
    /\ UNCHANGED <<depVars, smellVars, extractVars>>

\* main: the block of direction "up" or "both"
TraceCallers ==
    /\ tpc = "up"
    /\ callers' = getCallers(program, fn, 0, MaxDepthOf(argv), {}).nodes
    /\ traced' = traced \cup {"up"}
    /\ out' = out \o Rendered(callers', "up", <<"  No callers found">>)
    /\ tpc' = IF Direction(argv) = "both" THEN "down" ELSE "end"
    /\ UNCHANGED <<argv, program, fn, callees, exitCode>>
    /\ UNCHANGED <<depVars, smellVars, extractVars>>

\* main: the block of direction "down" or "both"
TraceCallees ==
    /\ tpc = "down"
    /\ callees' = getCallees(program, fn, 0, MaxDepthOf(argv), {})
    /\ traced' = traced \cup {"down"}
    /\ out' = out \o (IF Direction(argv) = "both" THEN << <<"">> >> ELSE <<>>)
                  \o Rendered(callees', "down", <<"  No callees found">>)
    /\ tpc' = "end"
    /\ UNCHANGED <<argv, program, fn, callers, exitCode>>
    /\ UNCHANGED <<depVars, smellVars, extractVars>>

\* main returns: the closing empty line, exit status 0
MainReturns ==
    /\ tpc = "end"
    /\ out' = Append(out, <<"">>)
    /\ exitCode' = 0
    /\ tpc' = "exit"
    /\ UNCHANGED <<argv, program, fn, callers, callees, traced>>
    /\ UNCHANGED <<depVars, smellVars, extractVars>>

NextTrace ==
    \/ FunctionFound
    \/ FunctionNotFound
    \/ TraceCallers
    \/ TraceCallees
    \/ MainReturns

----------------------------------------------------------------------------
(* Programs and command lines explored *)

\* The call sites a program is drawn from, in source order: the bodies of
\* f, g and h, then the top level. A site in a body is a direct call by the
\* callee's own name, or a call through the local alias x inside an arrow
\* callback.
BodySites ==
    [k \in 1..(2 * Len(DeclSeq) * Len(DeclSeq)) |->
        LET in == DeclSeq[((k - 1) \div (2 * Len(DeclSeq))) + 1]
            def == DeclSeq[(((k - 1) \div 2) % Len(DeclSeq)) + 1]
        IN  IF (k - 1) % 2 = 0 THEN CallSite(in, def, FALSE, def.name)
            ELSE CallSite(in, def, TRUE, "x")]

SiteList ==
    << CallSite(DeclF, NoDecl, FALSE, "cb") >>    \* a call no declaration resolves
    \o BodySites
    \o << CallSite(NoDecl, DeclF, FALSE, "f"),    \* a call of f at top level
          CallSite(NoDecl, DeclF, TRUE, "f") >>   \* the same inside a callback

\* the programs of at most n call sites
ProgramsUpTo(n) ==
    UNION { { [i \in 1..m |-> SiteList[idx[i]]] :
                idx \in {f \in [1..m -> 1..Len(SiteList)] :
                            \A i \in 1..(m - 1) : f[i] <= f[i + 1]} } : m \in 0..n }

TargetFile == <<"m", ".ts">>


----------------------------------------------------------------------------
(* Projects explored *)

\* graph-shape family: three units, one of them in a subdirectory
UnitRel == << <<"a", ".ts">>, <<"b", ".ts">>, <<"lib", SEP, "c", ".ts">> >>

Units == 1..Len(UnitRel)

\* the specifier by which unit from imports unit to: relative to the
\* importer's directory, with or without the target's extension
SpecTo(from, to, withExt) ==
    LET prefix == IF Dirname(UnitRel[from]) = <<".">> THEN <<".", SEP>> ELSE <<"..", SEP>>
        target == IF withExt THEN UnitRel[to] ELSE Front(UnitRel[to])
    IN  prefix \o target

ImportLines == UNION {[1..n -> [from : Units, to : Units]] : n \in 0..MaxImports}

GraphProject(lines, withExt) ==
    [u \in Units |->
        LET mine == SelectSeq(lines, LAMBDA l : l.from = u)
        IN  SourceFileOf(UnitRel[u],
                [i \in 1..Len(mine) |-> [spec |-> SpecTo(u, mine[i].to, withExt), names |-> 1]])]

\* resolution family: a.ts with one import beside any of the files its
\* specifier may stand for
VariantRel ==
    << <<"b", ".ts">>, <<"b", ".tsx">>, <<"b", ".js">>, <<"b", ".jsx">>,
       <<"b", SEP, "index", ".ts">>, <<"b", SEP, "index", ".tsx">>,
       <<"b", SEP, "index", ".js">> >>

ResolveSpecs ==
    { <<".", SEP, "b">>,              \* "./b"
      <<".", SEP, "b", ".ts">>,       \* "./b.ts"
      <<".", SEP, "b", ".js">>,       \* "./b.js"
      <<SEP, "b">>,                   \* "/b"
      <<"..", SEP, "w", SEP, "b">>,   \* "../w/b"
      <<".", SEP, "d">>,              \* "./d": no such unit
      <<"lodash">> }                  \* a package

ResolveProject(spec, names, present) ==
    LET kept == SelectSeq([i \in 1..Len(VariantRel) |-> i], LAMBDA i : i \in present)
    IN  <<SourceFileOf(<<"a", ".ts">>, <<[spec |-> spec, names |-> names]>>)>>
        \o [i \in 1..Len(kept) |-> SourceFileOf(VariantRel[kept[i]], <<>>)]

Projects ==
    {GraphProject(lines, withExt) : lines \in ImportLines, withExt \in BOOLEAN}
    \cup {ResolveProject(spec, names, present) :
            spec \in ResolveSpecs, names \in 0..1, present \in SUBSET (1..Len(VariantRel))}

----------------------------------------------------------------------------
(* The runs: analyze-exports.ts --deps, then code-smells.ts --check       *)
(* circular-deps, on the same project                                      *)

\* no dependency run in progress
DepsIdle ==
    /\ pc = "analyze"
    /\ graph = <<>>
    /\ visited = {}
    /\ recursionStack = {}
    /\ pathStack = <<>>
    /\ frames = <<>>
    /\ keyIdx = 0
    /\ cycles = <<>>
    /\ reports = <<>>

\* no trace in progress
TraceIdle ==
    /\ tpc = "main"
    /\ fn = NoDecl
    /\ callers = <<>>
    /\ callees = <<>>
    /\ traced = {}
    /\ out = <<>>
    /\ exitCode = -1

InitDeps ==
    /\ project \in Projects
    /\ DepsIdle
    /\ argv = NoArgv
    /\ program = <<>>
    /\ TraceIdle
    /\ args = [checks |-> <<>>, exported |-> FALSE, maxParams |-> 0, maxFnLines |-> 0,
               maxFileLines |-> 0, maxNesting |-> 0]
    /\ sourceFiles = <<>>
    /\ spc = "main" /\ fileIdx = 0 /\ allReports = <<>> /\ status = -1
    /\ xoptions = [exportedOnly |-> FALSE, includeTypes |-> FALSE, jsonOutput |-> FALSE,
                   includePrivate |-> FALSE]
    /\ xfiles = <<>>
    /\ xpc = "main" /\ xIdx = 0 /\ allSignatures = <<>> /\ listing = <<>> /\ xstatus = -1

\* analyze-exports.ts main: graph = buildDependencyGraph(modules), and the
\* locals of findCircularDeps(graph)
BuildDependencyGraph ==
    /\ pc = "analyze"
    /\ graph' = buildDependencyGraph(ModulesOf(project), <<>>)
    /\ visited' = {}
    /\ recursionStack' = {}
    /\ pathStack' = <<>>
    /\ frames' = <<>>
    /\ keyIdx' = 0
    /\ cycles' = <<>>
    /\ pc' = "find"
    /\ UNCHANGED <<traceVars, smellVars, extractVars>>
    /\ UNCHANGED <<project, reports>>

\* checkCircularDeps: the graph loop and the locals of the DFS
CheckCircularDeps ==
    /\ pc = "smells"
    /\ graph' = SmellGraph(project, project, <<>>)
    /\ visited' = {}
    /\ recursionStack' = {}
    /\ pathStack' = <<>>
    /\ frames' = <<>>
    /\ keyIdx' = 0
    /\ reports' = <<>>
    /\ pc' = "check"
    /\ UNCHANGED <<traceVars, smellVars, extractVars>>
    /\ UNCHANGED <<project, cycles>>

InDfs == pc \in {"find", "check"}

\* a cycle that keeps the whole path instead of its suffix from dep
CycleFromWholePath(path, dep) == Append(path, dep)

\* [...path.slice(cycleStart), dep] with cycleStart = path.indexOf(dep)
CycleFrom(path, dep) == Append(SubSeq(path, IndexOf(path, dep), Len(path)), dep)

\* an entry of dfs(node) that leaves the node off the recursion stack
EnterOffStack(node, callerFrames) ==
    /\ visited' = visited \cup {node}
    /\ recursionStack' = recursionStack
    /\ pathStack' = Append(pathStack, node)
    /\ frames' = Append(callerFrames, [node |-> node, i |-> 0])

\* entry of dfs(node)
Enter(node, callerFrames) ==
    /\ visited' = visited \cup {node}
    /\ recursionStack' = recursionStack \cup {node}
    /\ pathStack' = Append(pathStack, node)
    /\ frames' = Append(callerFrames, [node |-> node, i |-> 0])

\* the top frame with one more dep iterated
Advance == [frames EXCEPT ![Len(frames)].i = @ + 1]

\* the dep the top frame's loop is at; graph.get(node) || new Set()
TopDeps == MapGet(graph, Last(frames).node)

AtDep == frames # <<>> /\ Last(frames).i < Len(TopDeps)

NextDep == TopDeps[Last(frames).i + 1]

\* for (const node of graph.keys()) if (!visited.has(node)) dfs(node)
DfsRoot ==
    /\ InDfs /\ frames = <<>> /\ keyIdx < Len(graph)
    /\ MapKeys(graph)[keyIdx + 1] \notin visited
    /\ keyIdx' = keyIdx + 1
    /\ Enter(MapKeys(graph)[keyIdx + 1], frames)
    /\ UNCHANGED <<traceVars, smellVars, extractVars>>
    /\ UNCHANGED <<project, pc, graph, cycles, reports>>

\* the outer loop passes a key that a previous dfs has visited
DfsRootVisited ==
    /\ InDfs /\ frames = <<>> /\ keyIdx < Len(graph)
    /\ MapKeys(graph)[keyIdx + 1] \in visited
    /\ keyIdx' = keyIdx + 1
    /\ UNCHANGED <<traceVars, smellVars, extractVars>>
    /\ UNCHANGED <<project, pc, graph, visited, recursionStack, pathStack, frames,
                   cycles, reports>>

\* if (!visited.has(dep)) dfs(dep)
DfsRecurse ==
    /\ InDfs /\ AtDep
    /\ NextDep \notin visited
    /\ Enter(NextDep, Advance)
    /\ UNCHANGED <<traceVars, smellVars, extractVars>>
    /\ UNCHANGED <<project, pc, graph, keyIdx, cycles, reports>>

\* else if (recursionStack.has(dep)): the cycle from dep's position in the
\* path; findCircularDeps pushes it to cycles, checkCircularDeps pushes a
\* SmellReport
DfsCycle ==
    /\ InDfs /\ AtDep
    /\ NextDep \in visited
    /\ NextDep \in recursionStack
    /\ LET cycleStart == IndexOf(pathStack, NextDep)
           cycle == CycleFrom(pathStack, NextDep)
       IN  IF cycleStart = 0
           THEN UNCHANGED <<cycles, reports>>
           ELSE IF pc = "find"
                THEN cycles' = Append(cycles, cycle) /\ UNCHANGED reports
                ELSE reports' = Append(reports, CycleReport(cycle)) /\ UNCHANGED cycles
    /\ frames' = Advance
    /\ UNCHANGED <<traceVars, smellVars, extractVars>>
    /\ UNCHANGED <<project, pc, graph, visited, recursionStack, pathStack, keyIdx>>

\* a dep visited and no longer on the recursion stack
DfsSkip ==
    /\ InDfs /\ AtDep
    /\ NextDep \in visited
    /\ NextDep \notin recursionStack
    /\ frames' = Advance
    /\ UNCHANGED <<traceVars, smellVars, extractVars>>
    /\ UNCHANGED <<project, pc, graph, visited, recursionStack, pathStack, keyIdx,
                   cycles, reports>>

\* a dfs that forgets the node it leaves: visited used as the recursion stack
DfsReturnForgets ==
    /\ InDfs /\ frames # <<>> /\ ~AtDep
    /\ pathStack' = Front(pathStack)
    /\ recursionStack' = recursionStack \ {Last(frames).node}
    /\ visited' = visited \ {Last(frames).node}
    /\ frames' = Front(frames)
    /\ UNCHANGED <<traceVars, smellVars, extractVars>>
    /\ UNCHANGED <<project, pc, graph, keyIdx, cycles, reports>>

\* a dfs that returns without recursionStack.delete(node)
DfsReturnLeavesStack ==
    /\ InDfs /\ frames # <<>> /\ ~AtDep
    /\ pathStack' = Front(pathStack)
    /\ frames' = Front(frames)
    /\ UNCHANGED <<traceVars, smellVars, extractVars>>
    /\ UNCHANGED <<project, pc, graph, visited, recursionStack, keyIdx, cycles, reports>>

\* end of dfs(node): path.pop(); recursionStack.delete(node)
DfsReturn ==
    /\ InDfs /\ frames # <<>> /\ ~AtDep
    /\ pathStack' = Front(pathStack)
    /\ recursionStack' = recursionStack \ {Last(frames).node}
    /\ frames' = Front(frames)
    /\ UNCHANGED <<traceVars, smellVars, extractVars>>
    /\ UNCHANGED <<project, pc, graph, visited, keyIdx, cycles, reports>>

\* findCircularDeps returns cycles; printDependencyGraph prints them
FindCircularDepsReturn ==
    /\ pc = "find" /\ frames = <<>> /\ keyIdx = Len(graph)
    /\ pc' = "smells"
    /\ UNCHANGED <<traceVars, smellVars, extractVars>>
    /\ UNCHANGED <<project, graph, visited, recursionStack, pathStack, frames, keyIdx,
                   cycles, reports>>

\* checkCircularDeps returns reports
CheckCircularDepsReturn ==
    /\ pc = "check" /\ frames = <<>> /\ keyIdx = Len(graph)
    /\ pc' = "done"
    /\ UNCHANGED <<traceVars, smellVars, extractVars>>
    /\ UNCHANGED <<project, graph, visited, recursionStack, pathStack, frames, keyIdx,
                   cycles, reports>>

NextDeps ==
    \/ BuildDependencyGraph
    \/ DfsRoot
    \/ DfsRootVisited
    \/ DfsRecurse
    \/ DfsCycle
    \/ DfsSkip
    \/ DfsReturn
    \/ FindCircularDepsReturn
    \/ CheckCircularDeps
    \/ CheckCircularDepsReturn

SpecDeps == InitDeps /\ [][NextDeps]_vars

\* both directions at every depth over every program, and every command
\* line over the programs of at most one call site
InitTrace ==
    /\ \/ /\ program \in ProgramsUpTo(MaxSites)
          /\ argv \in [file : {TargetFile}, name : {"f"}, up : {TRUE}, down : {TRUE},
                       depth : 1..MaxDepthArg, tree : BOOLEAN]
       \/ /\ program \in ProgramsUpTo(1)
          /\ argv \in [file : {TargetFile}, name : {"f", "h", "k"}, up : BOOLEAN,
                       down : BOOLEAN, depth : 0..MaxDepthArg, tree : BOOLEAN]
    /\ TraceIdle
    /\ project = <<>>
    /\ DepsIdle
    /\ args = [checks |-> <<>>, exported |-> FALSE, maxParams |-> 0, maxFnLines |-> 0,
               maxFileLines |-> 0, maxNesting |-> 0]
    /\ sourceFiles = <<>>
    /\ spc = "main" /\ fileIdx = 0 /\ allReports = <<>> /\ status = -1
    /\ xoptions = [exportedOnly |-> FALSE, includeTypes |-> FALSE, jsonOutput |-> FALSE,
                   includePrivate |-> FALSE]
    /\ xfiles = <<>>
    /\ xpc = "main" /\ xIdx = 0 /\ allSignatures = <<>> /\ listing = <<>> /\ xstatus = -1

SpecTrace == InitTrace /\ [][NextTrace]_vars

\* the dependency run has returned
DepsOver ==
    /\ pc = "done"
    /\ graph = <<>>
    /\ visited = {}
    /\ recursionStack = {}
    /\ pathStack = <<>>
    /\ frames = <<>>
    /\ keyIdx = 0
    /\ cycles = <<>>
    /\ reports = <<>>

\* the tracer has returned
TraceOver ==
    /\ tpc = "exit"
    /\ fn = NoDecl
    /\ callers = <<>>
    /\ callees = <<>>
    /\ traced = {}
    /\ out = <<>>
    /\ exitCode = 1

\* one run of either traversal to its end: the dependency run over every
\* project, or the tracer in both directions over every program
InitTerminate ==
    /\ \/ /\ project \in Projects
          /\ DepsIdle
          /\ argv = NoArgv
          /\ program = <<>>
          /\ TraceOver
       \/ /\ program \in ProgramsUpTo(MaxSites)
          /\ argv \in [file : {TargetFile}, name : {"f", "k"}, up : {TRUE}, down : {TRUE},
                       depth : 1..MaxDepthArg, tree : {FALSE}]
          /\ TraceIdle
          /\ project = <<>>
          /\ DepsOver
    /\ args = [checks |-> <<>>, exported |-> FALSE, maxParams |-> 0, maxFnLines |-> 0,
               maxFileLines |-> 0, maxNesting |-> 0]
    /\ sourceFiles = <<>>
    /\ spc = "main" /\ fileIdx = 0 /\ allReports = <<>> /\ status = -1
    /\ xoptions = [exportedOnly |-> FALSE, includeTypes |-> FALSE, jsonOutput |-> FALSE,
                   includePrivate |-> FALSE]
    /\ xfiles = <<>>
    /\ xpc = "main" /\ xIdx = 0 /\ allSignatures = <<>> /\ listing = <<>> /\ xstatus = -1

NextTerminate == NextDeps \/ NextTrace

\* a step of the loops of findCircularDeps and checkCircularDeps
DfsStep ==
    \/ DfsRoot
    \/ DfsRootVisited
    \/ DfsRecurse
    \/ DfsCycle
    \/ DfsSkip
    \/ DfsReturn
    \/ FindCircularDepsReturn
    \/ CheckCircularDepsReturn

\* control passes from main into findCircularDeps or checkCircularDeps, the
\* graph built
PhaseEntered ==
    \/ pc = "analyze" /\ pc' = "find"
    \/ pc = "smells" /\ pc' = "check"

\* control passes to the next block of the tracer's main
TraceAdvanced ==
    \/ tpc = "main" /\ tpc' \in {"up", "down", "exit"}
    \/ tpc = "up" /\ tpc' \in {"down", "end"}
    \/ tpc = "down" /\ tpc' = "end"
    \/ tpc = "end" /\ tpc' = "exit"

\* node runs a script to its end: a loop that can take a step takes it, and
\* a block of main that is reached is left for the next one
SpecTerminate ==
    /\ InitTerminate
    /\ [][NextTerminate]_vars
    /\ WF_vars(DfsStep)
    /\ WF_pc(PhaseEntered)
    /\ WF_tpc(TraceAdvanced)

----------------------------------------------------------------------------
(* code-smells.ts: thresholds, declarations and syntax trees *)

\* DEFAULT_THRESHOLDS
DefaultMaxParams == 5

DefaultMaxFunctionLines == 50

DefaultMaxFileLines == 500

DefaultMaxNestingDepth == 4

DefaultMaxComplexity == 10

DEFAULT_THRESHOLDS ==
    [maxParams |-> DefaultMaxParams,
     maxFunctionLines |-> DefaultMaxFunctionLines,
     maxFileLines |-> DefaultMaxFileLines,
     maxNestingDepth |-> DefaultMaxNestingDepth,
     maxComplexity |-> DefaultMaxComplexity]

ALL_CHECKS ==
    <<"circular-deps", "large-functions", "many-params", "missing-jsdoc",
      "deep-nesting", "large-files", "god-classes">>

\* the limits written into checkGodClasses
GodClassMethods == 20

GodClassMethodsError == 30

GodClassProperties == 15

\* a syntax node: its kind, the operator of a binary expression, its children
Syntax(kind, op, children) == [kind |-> kind, op |-> op, children |-> children]

Block(statements) == Syntax("Block", "", statements)

\* a function or method declaration as the checks read it
Declaration(kind, name, exportKeyword, startLine, lines, params, jsDocs, scope, body) ==
    [kind |-> kind, name |-> name, exportKeyword |-> exportKeyword,
     startLine |-> startLine, endLine |-> startLine + lines - 1,
     params |-> params, jsDocs |-> jsDocs, scope |-> scope, children |-> <<body>>]

ClassDeclaration(name, exportKeyword, startLine, jsDocs, methods, properties) ==
    [kind |-> "ClassDeclaration", name |-> name, exportKeyword |-> exportKeyword,
     startLine |-> startLine, jsDocs |-> jsDocs, methods |-> methods,
     properties |-> properties]

\* a SourceFile of the smell detector
SmellSourceFile(rel, imports, functions, classes, endLine) ==
    [path |-> File(rel), imports |-> imports, functions |-> functions,
     classes |-> classes, endLine |-> endLine]

\* getJsDoc: the texts joined by a newline; <<>> stands for null
getJsDoc(node) ==
    IF Len(node.jsDocs) = 0 THEN <<>> ELSE JoinWith(node.jsDocs, <<"\n">>)

\* Node.isExportable: the kinds that can carry the export keyword
Exportable ==
    {"FunctionDeclaration", "ClassDeclaration", "InterfaceDeclaration",
     "TypeAliasDeclaration"}

isExported(node) ==
    IF node.kind \in Exportable THEN node.exportKeyword ELSE FALSE

countLines(node) == node.endLine - node.startLine + 1

NestingKinds ==
    {"IfStatement", "ForStatement", "ForInStatement", "ForOfStatement",
     "WhileStatement", "DoStatement", "TryStatement", "SwitchStatement"}

\* a traversal for which a plain block is a level of nesting too
RECURSIVE traverseBlocksToo(_, _)
traverseBlocksToo(n, depth) ==
    LET d == IF n.kind \in NestingKinds \cup {"Block"} THEN depth + 1 ELSE depth
        here == IF d > depth THEN d ELSE 0
        below == {traverseBlocksToo(n.children[i], d) : i \in 1..Len(n.children)}
    IN  CHOOSE m \in below \cup {here} : \A o \in below \cup {here} : o <= m

\* traverse(n, depth) of getMaxNestingDepth: the value maxDepth reaches
RECURSIVE traverse(_, _)
RECURSIVE traverseChildren(_, _, _)
traverseChildren(children, depth, maxDepth) ==
    IF children = <<>> THEN maxDepth
    ELSE traverseChildren(Tail(children), depth,
                          LET m == traverse(Head(children), depth)
                          IN  IF m > maxDepth THEN m ELSE maxDepth)

traverse(n, depth) ==
    IF n.kind \in NestingKinds
    THEN traverseChildren(n.children, depth + 1, depth + 1)
    ELSE traverseChildren(n.children, depth, 0)

getMaxNestingDepth(node) == traverse(node, 0)

BranchKinds ==
    {"IfStatement", "ConditionalExpression", "ForStatement", "ForInStatement",
     "ForOfStatement", "WhileStatement", "DoStatement", "CaseClause", "CatchClause"}

\* what one descendant adds to complexity
Increment(descendant) ==
    (IF descendant.kind \in BranchKinds THEN 1 ELSE 0)
    + (IF descendant.kind = "BinaryExpression" /\ descendant.op \in {"&&", "||"}
       THEN 1 ELSE 0)

\* node.forEachDescendant of getCyclomaticComplexity
RECURSIVE CountDescendants(_)
CountDescendants(children) ==
    IF children = <<>> THEN 0
    ELSE Increment(Head(children)) + CountDescendants(Head(children).children)
         + CountDescendants(Tail(children))

getCyclomaticComplexity(node) == 1 + CountDescendants(node.children)

----------------------------------------------------------------------------
(* code-smells.ts: the checks of one source file *)

\* className ? `${className}.${name}` : name
FullName(decl, className) ==
    LET name == IF decl.name = "" THEN "(anonymous)" ELSE decl.name
    IN  IF className # "" THEN <<className, ".", name>> ELSE <<name>>

\* reports.push(...) of several results in turn
RECURSIVE Concat(_)
Concat(ss) == IF ss = <<>> THEN <<>> ELSE Head(ss) \o Concat(Tail(ss))

\* a check whose error limit is the warning limit
LargeFunctionsAllErrors(sourceFile, options) ==
    LET filePath == PathRelative(Cwd, sourceFile.path)
        checkFn(decl, className) ==
            IF options.exportedOnly /\ ~isExported(decl) THEN <<>>
            ELSE LET lines == countLines(decl)
                 IN  IF lines > options.thresholds.maxFunctionLines
                     THEN << [type |-> "large-function",
                              severity |-> "error",
                              file |-> filePath,
                              line |-> decl.startLine,
                              message |-> FullName(decl, className)
                                  \o <<" is ", ToString(lines), " lines (max: ",
                                       ToString(options.thresholds.maxFunctionLines), ")">>] >>
                     ELSE <<>>
    IN  Concat([i \in 1..Len(sourceFile.functions) |-> checkFn(sourceFile.functions[i], "")])
        \o Concat([k \in 1..Len(sourceFile.classes) |->
               Concat([j \in 1..Len(sourceFile.classes[k].methods) |->
                   checkFn(sourceFile.classes[k].methods[j], sourceFile.classes[k].name)])])

\* a large-functions check that looks at the complexity only of a function
\* whose length is within the limit
LargeFunctionsElseComplexity(sourceFile, options) ==
    LET filePath == PathRelative(Cwd, sourceFile.path)
        checkFn(decl, className) ==
            IF options.exportedOnly /\ ~isExported(decl) THEN <<>>
            ELSE LET lines == countLines(decl)
                     fullName == FullName(decl, className)
                     complexity == getCyclomaticComplexity(decl)
                 IN  IF lines > options.thresholds.maxFunctionLines
                     THEN << [type |-> "large-function",
                              severity |-> IF lines > options.thresholds.maxFunctionLines * 2
                                           THEN "error" ELSE "warning",
                              file |-> filePath,
                              line |-> decl.startLine,
                              message |-> fullName
                                  \o <<" is ", ToString(lines), " lines (max: ",
                                       ToString(options.thresholds.maxFunctionLines), ")">>] >>
                     ELSE IF complexity > options.thresholds.maxComplexity
                     THEN << [type |-> "high-complexity",
                              severity |-> IF complexity > options.thresholds.maxComplexity * 2
                                           THEN "error" ELSE "warning",
                              file |-> filePath,
                              line |-> decl.startLine,
                              message |-> fullName
                                  \o <<" has cyclomatic complexity of ", ToString(complexity),
                                       " (max: ", ToString(options.thresholds.maxComplexity),
                                       ")">>] >>
                     ELSE <<>>
    IN  Concat([i \in 1..Len(sourceFile.functions) |-> checkFn(sourceFile.functions[i], "")])
        \o Concat([k \in 1..Len(sourceFile.classes) |->
               Concat([j \in 1..Len(sourceFile.classes[k].methods) |->
                   checkFn(sourceFile.classes[k].methods[j], sourceFile.classes[k].name)])])

checkLargeFunctions(sourceFile, options) ==
    LET filePath == PathRelative(Cwd, sourceFile.path)
        checkFn(decl, className) ==
            IF options.exportedOnly /\ ~isExported(decl) THEN <<>>
            ELSE LET lines == countLines(decl)
                     fullName == FullName(decl, className)
                     complexity == getCyclomaticComplexity(decl)
                 IN  (IF lines > options.thresholds.maxFunctionLines
                      THEN << [type |-> "large-function",
                               severity |-> IF lines > options.thresholds.maxFunctionLines * 2
                                            THEN "error" ELSE "warning",
                               file |-> filePath,
                               line |-> decl.startLine,
                               message |-> fullName
                                   \o <<" is ", ToString(lines), " lines (max: ",
                                        ToString(options.thresholds.maxFunctionLines), ")">>] >>
                      ELSE <<>>)
                     \o (IF complexity > options.thresholds.maxComplexity
                         THEN << [type |-> "high-complexity",
                                  severity |-> IF complexity > options.thresholds.maxComplexity * 2
                                               THEN "error" ELSE "warning",
                                  file |-> filePath,
                                  line |-> decl.startLine,
                                  message |-> fullName
                                      \o <<" has cyclomatic complexity of ", ToString(complexity),
                                           " (max: ", ToString(options.thresholds.maxComplexity),
                                           ")">>] >>
                         ELSE <<>>)
    IN  Concat([i \in 1..Len(sourceFile.functions) |-> checkFn(sourceFile.functions[i], "")])
        \o Concat([k \in 1..Len(sourceFile.classes) |->
               Concat([j \in 1..Len(sourceFile.classes[k].methods) |->
                   checkFn(sourceFile.classes[k].methods[j], sourceFile.classes[k].name)])])

checkManyParams(sourceFile, options) ==
    LET filePath == PathRelative(Cwd, sourceFile.path)
        checkFn(decl, className) ==
            IF options.exportedOnly /\ ~isExported(decl) THEN <<>>
            ELSE IF decl.params > options.thresholds.maxParams
                 THEN << [type |-> "many-params",
                          severity |-> IF decl.params > options.thresholds.maxParams + 3
                                       THEN "error" ELSE "warning",
                          file |-> filePath,
                          line |-> decl.startLine,
                          message |-> FullName(decl, className)
                              \o <<" has ", ToString(decl.params), " parameters (max: ",
                                   ToString(options.thresholds.maxParams), ")">>,
                          details |-> <<"Consider using an options object instead">>] >>
                 ELSE <<>>
    IN  Concat([i \in 1..Len(sourceFile.functions) |-> checkFn(sourceFile.functions[i], "")])
        \o Concat([k \in 1..Len(sourceFile.classes) |->
               Concat([j \in 1..Len(sourceFile.classes[k].methods) |->
                   checkFn(sourceFile.classes[k].methods[j], sourceFile.classes[k].name)])])

RECURSIVE MissingJsDocOfClasses(_, _)

\* a loop that also asks the methods of classes that are not exported
MissingJsDocOfAllClasses(classes, filePath) ==
    IF classes = <<>> THEN <<>>
    ELSE LET cls == Head(classes)
             ofMethod(method, className) ==
                 IF method.scope = "private" THEN <<>>
                 ELSE IF getJsDoc(method) = <<>>
                      THEN << [type |-> "missing-jsdoc", severity |-> "warning",
                               file |-> filePath, line |-> method.startLine,
                               message |-> <<"Public method '", className, ".", method.name,
                                             "' lacks JSDoc">>] >>
                      ELSE <<>>
         IN  (IF isExported(cls) /\ getJsDoc(cls) = <<>>
              THEN << [type |-> "missing-jsdoc", severity |-> "warning",
                       file |-> filePath, line |-> cls.startLine,
                       message |-> <<"Exported class '", cls.name, "' lacks JSDoc">>] >>
              ELSE <<>>)
             \o Concat([i \in 1..Len(cls.methods) |-> ofMethod(cls.methods[i], cls.name)])
             \o MissingJsDocOfClasses(Tail(classes), filePath)

\* the loop of checkMissingJsDoc over the classes
MissingJsDocOfClasses(classes, filePath) ==
    IF classes = <<>> THEN <<>>
    ELSE LET cls == Head(classes)
             ofMethod(method, className) ==
                 IF method.scope = "private" THEN <<>>
                 ELSE IF getJsDoc(method) = <<>>
                      THEN << [type |-> "missing-jsdoc", severity |-> "warning",
                               file |-> filePath, line |-> method.startLine,
                               message |-> <<"Public method '", className, ".", method.name,
                                             "' lacks JSDoc">>] >>
                      ELSE <<>>
         IN  (IF ~isExported(cls) THEN <<>>
              ELSE (IF getJsDoc(cls) = <<>>
                    THEN << [type |-> "missing-jsdoc", severity |-> "warning",
                             file |-> filePath, line |-> cls.startLine,
                             message |-> <<"Exported class '", cls.name, "' lacks JSDoc">>] >>
                    ELSE <<>>)
                   \o Concat([i \in 1..Len(cls.methods) |-> ofMethod(cls.methods[i], cls.name)]))
             \o MissingJsDocOfClasses(Tail(classes), filePath)

checkMissingJsDoc(sourceFile, options) ==
    LET filePath == PathRelative(Cwd, sourceFile.path)
        ofFunction(decl, className) ==
            IF ~isExported(decl) THEN <<>>
            ELSE IF getJsDoc(decl) = <<>>
                 THEN << [type |-> "missing-jsdoc", severity |-> "warning",
                          file |-> filePath, line |-> decl.startLine,
                          message |-> <<"Exported function '",
                                        IF decl.name = "" THEN "(anonymous)" ELSE decl.name,
                                        "' lacks JSDoc">>] >>
                 ELSE <<>>
    IN  Concat([i \in 1..Len(sourceFile.functions) |-> ofFunction(sourceFile.functions[i], "")])
        \o MissingJsDocOfClasses(sourceFile.classes, filePath)

checkDeepNesting(sourceFile, options) ==
    LET filePath == PathRelative(Cwd, sourceFile.path)
        checkFn(decl, className) ==
            LET depth == getMaxNestingDepth(decl)
            IN  IF depth > options.thresholds.maxNestingDepth
                THEN << [type |-> "deep-nesting",
                         severity |-> IF depth > options.thresholds.maxNestingDepth + 2
                                      THEN "error" ELSE "warning",
                         file |-> filePath,
                         line |-> decl.startLine,
                         message |-> FullName(decl, className)
                             \o <<" has nesting depth of ", ToString(depth), " (max: ",
                                  ToString(options.thresholds.maxNestingDepth), ")">>,
                         details |-> <<"Consider extracting nested logic into separate functions">>] >>
                ELSE <<>>
    IN  Concat([i \in 1..Len(sourceFile.functions) |-> checkFn(sourceFile.functions[i], "")])
        \o Concat([k \in 1..Len(sourceFile.classes) |->
               Concat([j \in 1..Len(sourceFile.classes[k].methods) |->
                   checkFn(sourceFile.classes[k].methods[j], sourceFile.classes[k].name)])])

checkLargeFiles(sourceFile, options) ==
    LET filePath == PathRelative(Cwd, sourceFile.path)
        lines == sourceFile.endLine
    IN  IF lines > options.thresholds.maxFileLines
        THEN << [type |-> "large-file",
                 severity |-> IF lines > options.thresholds.maxFileLines * 2
                              THEN "error" ELSE "warning",
                 file |-> filePath,
                 message |-> <<"File is ", ToString(lines), " lines (max: ",
                               ToString(options.thresholds.maxFileLines), ")">>,
                 details |-> <<"Consider splitting into multiple modules">>] >>
        ELSE <<>>

\* a check that flags a class only once, by its methods or else its properties
GodClassReportsOnlyFirst(cls, filePath) ==
    LET methods == Len(cls.methods)
        properties == cls.properties
    IN  IF methods >= GodClassMethods
        THEN << [type |-> "god-class",
                 severity |-> IF methods > GodClassMethodsError THEN "error" ELSE "warning",
                 file |-> filePath,
                 line |-> cls.startLine,
                 message |-> <<"Class '", cls.name, "' has ", ToString(methods), " methods">>,
                 details |-> <<"Consider splitting responsibilities into multiple classes">>] >>
        ELSE IF properties > GodClassProperties
        THEN << [type |-> "god-class",
                 severity |-> "warning",
                 file |-> filePath,
                 line |-> cls.startLine,
                 message |-> <<"Class '", cls.name, "' has ", ToString(properties),
                               " properties">>] >>
        ELSE <<>>

\* the findings of checkGodClasses for one class
GodClassReports(cls, filePath) ==
    LET methods == Len(cls.methods)
        properties == cls.properties
    IN  (IF methods > GodClassMethods
         THEN << [type |-> "god-class",
                  severity |-> IF methods > GodClassMethodsError THEN "error" ELSE "warning",
                  file |-> filePath,
                  line |-> cls.startLine,
                  message |-> <<"Class '", cls.name, "' has ", ToString(methods), " methods">>,
                  details |-> <<"Consider splitting responsibilities into multiple classes">>] >>
         ELSE <<>>)
        \o (IF properties > GodClassProperties
            THEN << [type |-> "god-class",
                     severity |-> "warning",
                     file |-> filePath,
                     line |-> cls.startLine,
                     message |-> <<"Class '", cls.name, "' has ", ToString(properties),
                                   " properties">>] >>
            ELSE <<>>)

checkGodClasses(sourceFile, options) ==
    LET filePath == PathRelative(Cwd, sourceFile.path)
        ofClass(cls, className) == GodClassReports(cls, filePath)
    IN  Concat([i \in 1..Len(sourceFile.classes) |-> ofClass(sourceFile.classes[i], "")])

----------------------------------------------------------------------------
(* code-smells.ts: checkCircularDeps as main calls it *)

\* dfs(node) with its closure variables visited, recursionStack, path and
\* reports carried in st
RECURSIVE dfs(_, _, _)
RECURSIVE dfsDeps(_, _, _)
dfsDeps(g, deps, st) ==
    IF deps = <<>> THEN st
    ELSE LET dep == Head(deps)
         IN  IF dep \notin st.visited
             THEN dfsDeps(g, Tail(deps), dfs(g, dep, st))
             ELSE IF dep \in st.recursionStack
             THEN dfsDeps(g, Tail(deps),
                     [st EXCEPT !.reports = Append(@, CycleReport(CycleFrom(st.path, dep)))])
             ELSE dfsDeps(g, Tail(deps), st)

dfs(g, node, st) ==
    LET entered == [st EXCEPT !.visited = @ \cup {node},
                              !.recursionStack = @ \cup {node},
                              !.path = Append(@, node)]
        after == dfsDeps(g, MapGet(g, node), entered)
    IN  [after EXCEPT !.path = Front(@), !.recursionStack = @ \ {node}]

\* for (const node of graph.keys()) if (!visited.has(node)) dfs(node)
RECURSIVE dfsKeys(_, _, _)
dfsKeys(g, keys, st) ==
    IF keys = <<>> THEN st
    ELSE IF Head(keys) \notin st.visited
    THEN dfsKeys(g, Tail(keys), dfs(g, Head(keys), st))
    ELSE dfsKeys(g, Tail(keys), st)

checkCircularDeps(proj) ==
    LET g == SmellGraph(proj, proj, <<>>)
    IN  dfsKeys(g, MapKeys(g),
                [visited |-> {}, recursionStack |-> {}, path |-> <<>>,
                 reports |-> <<>>]).reports

----------------------------------------------------------------------------
(* code-smells.ts: main *)

\* the command line after the path: the --check names in order, --exported,
\* and the threshold options (0: the option is absent)
NoArgs ==
    [checks |-> <<>>, exported |-> FALSE, maxParams |-> 0, maxFnLines |-> 0,
     maxFileLines |-> 0, maxNesting |-> 0]

\* main: checks, thresholds and options as parsed
OptionsOf(a) ==
    [checks |-> IF Len(a.checks) = 0 THEN Range(ALL_CHECKS) ELSE Range(a.checks),
     exportedOnly |-> a.exported,
     thresholds |->
        [maxParams |-> IF a.maxParams # 0 THEN a.maxParams
                       ELSE DEFAULT_THRESHOLDS.maxParams,
         maxFunctionLines |-> IF a.maxFnLines # 0 THEN a.maxFnLines
                              ELSE DEFAULT_THRESHOLDS.maxFunctionLines,
         maxFileLines |-> IF a.maxFileLines # 0 THEN a.maxFileLines
                          ELSE DEFAULT_THRESHOLDS.maxFileLines,
         maxNestingDepth |-> IF a.maxNesting # 0 THEN a.maxNesting
                             ELSE DEFAULT_THRESHOLDS.maxNestingDepth,
         maxComplexity |-> DEFAULT_THRESHOLDS.maxComplexity]]

\* a loop body in which a check that found something stops the later checks
FileReportsShortCircuit(sourceFile, options) ==
    LET lf == IF "large-functions" \in options.checks
              THEN checkLargeFunctions(sourceFile, options) ELSE <<>>
        mp == IF "many-params" \in options.checks /\ lf = <<>>
              THEN checkManyParams(sourceFile, options) ELSE <<>>
        mj == IF "missing-jsdoc" \in options.checks /\ lf \o mp = <<>>
              THEN checkMissingJsDoc(sourceFile, options) ELSE <<>>
        dn == IF "deep-nesting" \in options.checks /\ lf \o mp \o mj = <<>>
              THEN checkDeepNesting(sourceFile, options) ELSE <<>>
        fl == IF "large-files" \in options.checks /\ lf \o mp \o mj \o dn = <<>>
              THEN checkLargeFiles(sourceFile, options) ELSE <<>>
        gc == IF "god-classes" \in options.checks /\ lf \o mp \o mj \o dn \o fl = <<>>
              THEN checkGodClasses(sourceFile, options) ELSE <<>>
    IN  lf \o mp \o mj \o dn \o fl \o gc

\* the body of the loop of main over the source files
FileReports(sourceFile, options) ==
    (IF "large-functions" \in options.checks
     THEN checkLargeFunctions(sourceFile, options) ELSE <<>>)
    \o (IF "many-params" \in options.checks
        THEN checkManyParams(sourceFile, options) ELSE <<>>)
    \o (IF "missing-jsdoc" \in options.checks
        THEN checkMissingJsDoc(sourceFile, options) ELSE <<>>)
    \o (IF "deep-nesting" \in options.checks
        THEN checkDeepNesting(sourceFile, options) ELSE <<>>)
    \o (IF "large-files" \in options.checks
        THEN checkLargeFiles(sourceFile, options) ELSE <<>>)
    \o (IF "god-classes" \in options.checks
        THEN checkGodClasses(sourceFile, options) ELSE <<>>)

\* an exit status that any finding makes nonzero
StatusOfAnyFinding(found) == IF found # <<>> THEN 1 ELSE 0

\* allReports.some(r => r.severity === "error") ? 1 : 0
StatusOf(found) ==
    IF \E i \in 1..Len(found) : found[i].severity = "error" THEN 1 ELSE 0

\* main: no source files, process.exit(1)
MainNoSourceFiles ==
    /\ spc = "main"
    /\ Len(sourceFiles) = 0
    /\ status' = 1
    /\ spc' = "exit"
    /\ UNCHANGED <<args, sourceFiles, fileIdx, allReports>>
    /\ UNCHANGED <<depVars, traceVars, extractVars>>

\* main: allReports and the circular-deps check over the whole project
MainCircularDeps ==
    /\ spc = "main"
    /\ Len(sourceFiles) # 0
    /\ allReports' = IF "circular-deps" \in OptionsOf(args).checks
                     THEN checkCircularDeps(sourceFiles) ELSE <<>>
    /\ fileIdx' = 0
    /\ spc' = "files"
    /\ UNCHANGED <<args, sourceFiles, status>>
    /\ UNCHANGED <<depVars, traceVars, extractVars>>

\* main: one iteration of the loop over the source files
MainCheckSourceFile ==
    /\ spc = "files"
    /\ fileIdx < Len(sourceFiles)
    /\ allReports' = allReports \o FileReports(sourceFiles[fileIdx + 1], OptionsOf(args))
    /\ fileIdx' = fileIdx + 1
    /\ UNCHANGED <<args, sourceFiles, spc, status>>
    /\ UNCHANGED <<depVars, traceVars, extractVars>>

\* main: the report is printed; exit status 1 if a finding is an error
MainExit ==
    /\ spc = "files"
    /\ fileIdx = Len(sourceFiles)
    /\ status' = StatusOf(allReports)
    /\ spc' = "exit"
    /\ UNCHANGED <<args, sourceFiles, fileIdx, allReports>>
    /\ UNCHANGED <<depVars, traceVars, extractVars>>

NextSmells ==
    \/ MainNoSourceFiles
    \/ MainCircularDeps
    \/ MainCheckSourceFile
    \/ MainExit

----------------------------------------------------------------------------
(* Source files and command lines explored by the smell detector *)

\* the largest --max-fn-lines given on the command line
MaxFnLinesArg == 3

\* the largest number of parameters of a declaration
MaxParamCount == 9

\* function lengths: around the limits given on the command line and around
\* the default limit
FnLineCounts ==
    (1..(2 * MaxFnLinesArg + 2))
    \cup {DefaultMaxFunctionLines, DefaultMaxFunctionLines + 1,
          2 * DefaultMaxFunctionLines, 2 * DefaultMaxFunctionLines + 1}

\* n if statements one after the other
IfRow(n) == Block([i \in 1..n |-> Syntax("IfStatement", "", <<>>)])

\* n if statements one inside the other
RECURSIVE Nest(_)
Nest(n) ==
    IF n = 0 THEN Syntax("ExpressionStatement", "", <<>>)
    ELSE Syntax("IfStatement", "", <<Block(<<Nest(n - 1)>>)>>)

FunctionOf(name, exportKeyword, startLine, lines, params, body) ==
    Declaration("FunctionDeclaration", name, exportKeyword, startLine, lines, params,
                <<>>, "", body)

MethodOf(name, startLine, lines, params, body) ==
    Declaration("MethodDeclaration", name, FALSE, startLine, lines, params,
                <<>>, "public", body)

\* a.ts with one declaration: a function, or a method of class K
Forms == {"function", "method"}

\* the constructs of kinds, one inside the other, each in a block of its own
RECURSIVE NestedIn(_)
NestedIn(kinds) ==
    IF kinds = <<>> THEN Syntax("ExpressionStatement", "", <<>>)
    ELSE IF Head(kinds) = "Block" THEN Block(<<NestedIn(Tail(kinds))>>)
    ELSE Syntax(Head(kinds), "", <<Block(<<NestedIn(Tail(kinds))>>)>>)

\* a body whose branching constructs are of every counted kind, beside an
\* operator that is not counted: a && b, a || b, a + b, c ? d : e, a switch
\* with two case clauses and a try with a catch clause
MixedBranches(ifs) ==
    Block(<<Syntax("BinaryExpression", "&&", <<>>),
            Syntax("BinaryExpression", "||", <<>>),
            Syntax("BinaryExpression", "+", <<>>),
            Syntax("ConditionalExpression", "", <<>>),
            Syntax("SwitchStatement", "",
                   <<Syntax("CaseClause", "", <<>>), Syntax("CaseClause", "", <<>>),
                     Syntax("DefaultClause", "", <<>>)>>),
            Syntax("TryStatement", "", <<Block(<<>>), Syntax("CatchClause", "", <<>>)>>),
            Syntax("ForStatement", "", <<Syntax("WhileStatement", "", <<>>)>>),
            Syntax("ForInStatement", "", <<Syntax("ForOfStatement", "", <<>>)>>),
            Syntax("DoStatement", "", <<>>)>>
          \o [i \in 1..ifs |-> Syntax("IfStatement", "", <<>>)])

\* one source file with one function, or one class with one method, of a body
OneBodyFile(form, exportKeyword, lines, body) ==
    IF form = "function"
    THEN SmellSourceFile(<<"a", ".ts">>, <<>>,
             <<FunctionOf("deep", exportKeyword, 1, lines, 0, body)>>,
             <<>>, lines + 1)
    ELSE SmellSourceFile(<<"a", ".ts">>, <<>>, <<>>,
             <<ClassDeclaration("K", exportKeyword, 1, <<>>,
                   <<MethodOf("deep", 2, lines, 0, body)>>, 0)>>,
             lines + 3)

OneDeclarationFile(form, exportKeyword, lines, params) ==
    IF form = "function"
    THEN SmellSourceFile(<<"a", ".ts">>, <<>>,
             <<FunctionOf("big", exportKeyword, 1, lines, params, Block(<<>>))>>,
             <<>>, lines + 1)
    ELSE SmellSourceFile(<<"a", ".ts">>, <<>>, <<>>,
             <<ClassDeclaration("K", exportKeyword, 1, <<>>,
                   <<MethodOf("big", 2, lines, params, Block(<<>>))>>, 0)>>,
             lines + 3)

\* a.ts with one class of the given numbers of methods and properties
GodClassFile(exportKeyword, methods, properties) ==
    SmellSourceFile(<<"a", ".ts">>, <<>>, <<>>,
        <<ClassDeclaration("K", exportKeyword, 1, <<>>,
              [i \in 1..methods |-> MethodOf("m", 1 + i, 1, 0, Block(<<>>))],
              properties)>>,
        methods + 3)

MethodCounts ==
    {0, GodClassMethods, GodClassMethods + 1, 25, GodClassMethodsError,
     GodClassMethodsError + 1}

PropertyCounts == {0, 10, GodClassProperties, GodClassProperties + 1}

\* a.ts with a function and b.ts with a class, importing each other or not
TwoFiles(aImportsB, bImportsA, lines, params, body, methods) ==
    << SmellSourceFile(<<"a", ".ts">>,
           IF aImportsB THEN <<[spec |-> <<".", SEP, "b">>, names |-> 1]>> ELSE <<>>,
           <<FunctionOf("big", TRUE, 1, lines, params, body)>>, <<>>, lines + 1),
       SmellSourceFile(<<"b", ".ts">>,
           IF bImportsA THEN <<[spec |-> <<".", SEP, "a">>, names |-> 1]>> ELSE <<>>,
           <<>>,
           <<ClassDeclaration("K", FALSE, 1, <<>>,
                 [i \in 1..methods |-> MethodOf("m", 1 + i, 1, 0, Block(<<>>))], 0)>>,
           methods + 3) >>

Bodies == {Block(<<>>), IfRow(DefaultMaxComplexity), Block(<<Nest(DefaultMaxNestingDepth + 1)>>)}

CheckLists ==
    {<<>>, <<"unknown">>, <<"large-functions", "large-functions">>,
     <<"many-params", "large-functions">>, <<"circular-deps", "god-classes">>,
     <<"deep-nesting", "large-files", "missing-jsdoc">>}
    \cup {<<ALL_CHECKS[i]>> : i \in 1..Len(ALL_CHECKS)}

\* the documentation a declaration may carry
DocTexts == {<<>>, << <<"/** doc */">> >>}

\* a.ts with a function f and a class K of two methods, each exported or
\* not, documented or not, the first method public or private, the second
\* protected
DocumentedFile(fExported, fDocs, kExported, kDocs, scope, mDocs, nDocs) ==
    SmellSourceFile(<<"a", ".ts">>, <<>>,
        <<Declaration("FunctionDeclaration", "f", fExported, 1, 1, 0, fDocs, "", Block(<<>>))>>,
        <<ClassDeclaration("K", kExported, 3, kDocs,
              <<Declaration("MethodDeclaration", "m", FALSE, 4, 1, 0, mDocs, scope, Block(<<>>)),
                Declaration("MethodDeclaration", "n", FALSE, 5, 1, 0, nDocs, "protected",
                            Block(<<>>))>>,
              0)>>,
        6)

DocumentedFiles ==
    {DocumentedFile(fe, fd, ke, kd, scope, md, nd) :
        fe \in BOOLEAN, fd \in DocTexts, ke \in BOOLEAN, kd \in DocTexts,
        scope \in {"public", "private"}, md \in DocTexts, nd \in DocTexts}

\* the longest chain of constructs explored
MaxNestLen == 4

NestingChainKinds == {"IfStatement", "SwitchStatement", "Block"}

NestingChains ==
    UNION {[1..n -> NestingChainKinds] : n \in 0..MaxNestLen}

\* the chains that stand beside the first one in the body
SiblingChains ==
    {<<>>,
     <<"ForStatement", "ArrowFunction", "ForInStatement", "ForOfStatement">>,
     <<"WhileStatement", "DoStatement", "Block", "TryStatement", "IfStatement",
       "SwitchStatement">>}

NestedBodies ==
    {Block(<<NestedIn(first), NestedIn(second)>>) :
        first \in NestingChains, second \in SiblingChains}

\* bodies of complexity at, above and far above the limit
BranchingBodies ==
    {IfRow(DefaultMaxComplexity - 1), IfRow(DefaultMaxComplexity),
     IfRow(2 * DefaultMaxComplexity - 1), IfRow(2 * DefaultMaxComplexity),
     MixedBranches(0), MixedBranches(1), MixedBranches(DefaultMaxComplexity)}

SmellsIdle ==
    /\ spc = "main"
    /\ fileIdx = 0
    /\ allReports = <<>>
    /\ status = -1

InitSmells ==
    /\ \/ /\ sourceFiles \in {<<OneDeclarationFile(form, e, lines, 0)>> :
                                 form \in Forms, e \in BOOLEAN, lines \in FnLineCounts}
          /\ args \in [checks : {<<>>, <<"large-functions">>}, exported : BOOLEAN,
                       maxParams : {0}, maxFnLines : 0..MaxFnLinesArg,
                       maxFileLines : {0}, maxNesting : {0}]
       \/ /\ sourceFiles \in {<<OneDeclarationFile(form, e, 1, params)>> :
                                 form \in Forms, e \in BOOLEAN, params \in 0..MaxParamCount}
          /\ args \in [checks : {<<"many-params">>}, exported : BOOLEAN,
                       maxParams : {0, 3}, maxFnLines : {0},
                       maxFileLines : {0}, maxNesting : {0}]
       \/ /\ sourceFiles \in {<<GodClassFile(e, methods, properties)>> :
                                 e \in BOOLEAN, methods \in MethodCounts,
                                 properties \in PropertyCounts}
          /\ args \in [checks : {<<>>, <<"god-classes">>}, exported : {FALSE},
                       maxParams : {0}, maxFnLines : {0},
                       maxFileLines : {0}, maxNesting : {0}]
       \/ /\ sourceFiles \in {TwoFiles(ab, ba, lines, params, body, methods) :
                                 ab \in BOOLEAN, ba \in BOOLEAN,
                                 lines \in {1, DefaultMaxFunctionLines + 1,
                                            2 * DefaultMaxFunctionLines + 1},
                                 params \in {0, DefaultMaxParams + 1},
                                 body \in Bodies,
                                 methods \in {0, GodClassMethods + 1}}
          /\ args \in [checks : CheckLists, exported : {FALSE},
                       maxParams : {0}, maxFnLines : {0},
                       maxFileLines : {0}, maxNesting : {0}]
       \/ /\ sourceFiles \in {<<sf>> : sf \in DocumentedFiles}
          /\ args \in [checks : {<<>>, <<"missing-jsdoc">>}, exported : {FALSE},
                       maxParams : {0}, maxFnLines : {0},
                       maxFileLines : {0}, maxNesting : {0}]
       \/ /\ sourceFiles \in {<<OneBodyFile(form, e, 1, body)>> :
                                 form \in Forms, e \in BOOLEAN, body \in NestedBodies}
          /\ args \in [checks : {<<"deep-nesting">>}, exported : BOOLEAN,
                       maxParams : {0}, maxFnLines : {0},
                       maxFileLines : {0}, maxNesting : {1, 2}]
       \/ /\ sourceFiles \in {<<OneBodyFile(form, e, lines, body)>> :
                                 form \in Forms, e \in BOOLEAN,
                                 lines \in {1, DefaultMaxFunctionLines + 1},
                                 body \in BranchingBodies}
          /\ args \in [checks : {<<>>, <<"large-functions">>, <<"deep-nesting">>,
                                 <<"many-params", "god-classes">>},
                       exported : BOOLEAN,
                       maxParams : {0}, maxFnLines : {0},
                       maxFileLines : {0}, maxNesting : {0}]
       \/ /\ sourceFiles = <<>>
          /\ args \in [checks : CheckLists, exported : BOOLEAN,
                       maxParams : {0}, maxFnLines : {0},
                       maxFileLines : {0}, maxNesting : {0}]
    /\ SmellsIdle
    /\ project = <<>>
    /\ DepsIdle
    /\ argv = NoArgv
    /\ program = <<>>
    /\ TraceIdle
    /\ xoptions = [exportedOnly |-> FALSE, includeTypes |-> FALSE, jsonOutput |-> FALSE,
                   includePrivate |-> FALSE]
    /\ xfiles = <<>>
    /\ xpc = "main" /\ xIdx = 0 /\ allSignatures = <<>> /\ listing = <<>> /\ xstatus = -1

SpecSmells == InitSmells /\ [][NextSmells]_vars

----------------------------------------------------------------------------
(* extract-signatures.ts: declarations and their signatures *)

\* a parameter or type parameter list joined by ", "
CommaList(texts) == JoinWith(texts, <<", ">>)

\* `${p.getName()}${optional}: ${type}` for every parameter
ParamTexts(params) ==
    [i \in 1..Len(params) |->
        <<params[i].name, IF params[i].optional THEN "?" ELSE "", ": ", params[i].type>>]

\* typeParams ? `<${typeParams}>` : ""
TypeParamStr(typeParams) ==
    IF CommaList(typeParams) # <<>> THEN <<"<">> \o CommaList(typeParams) \o <<">">>
    ELSE <<>>

getFunctionSignature(decl) ==
    LET name == IF decl.name = "" THEN "(anonymous)" ELSE decl.name
    IN  <<IF decl.async THEN "async " ELSE "", "function ", name>>
        \o TypeParamStr(decl.typeParams)
        \o <<"(">> \o CommaList(ParamTexts(decl.params)) \o <<"): ", decl.returnType>>

getMethodSignature(method, className) ==
    <<IF method.static THEN "static " ELSE "", IF method.async THEN "async " ELSE "",
      method.name>>
    \o TypeParamStr(method.typeParams)
    \o <<"(">> \o CommaList(ParamTexts(method.params)) \o <<"): ", method.returnType>>

getClassSignature(cls) ==
    LET name == IF cls.name = "" THEN "(anonymous)" ELSE cls.name
    IN  <<"class ", name>> \o TypeParamStr(cls.typeParams)
        \o (IF cls.extends # "" THEN <<" extends ", cls.extends>> ELSE <<>>)
        \o (IF CommaList(cls.implements) # <<>>
            THEN <<" implements ">> \o CommaList(cls.implements) ELSE <<>>)

getInterfaceSignature(iface) ==
    <<"interface ", iface.name>> \o TypeParamStr(iface.typeParams)
    \o (IF CommaList(iface.extends) # <<>>
        THEN <<" extends ">> \o CommaList(iface.extends) ELSE <<>>)

getTypeSignature(typeAlias) ==
    <<"type ", typeAlias.name>> \o TypeParamStr(typeAlias.typeParams)
    \o <<" = ", typeAlias.typeText>>

\* the statements of a kind, in source order: getFunctions(), getClasses(),
\* getInterfaces(), getTypeAliases()
OfKind(sourceFile, kind) == SelectSeq(sourceFile.statements, LAMBDA d : d.kind = kind)

\* SignatureInfo; className is absent except for a method
SignatureInfo(file, name, kind, signature, jsdoc, exported, line) ==
    [file |-> file, name |-> name, kind |-> kind, signature |-> signature,
     jsdoc |-> jsdoc, exported |-> exported, line |-> line]

MethodInfo(file, name, signature, jsdoc, exported, line, className) ==
    [file |-> file, name |-> name, kind |-> "method", signature |-> signature,
     jsdoc |-> jsdoc, exported |-> exported, line |-> line, className |-> className]

\* extractFromSourceFile: the loop over sourceFile.getFunctions()
RECURSIVE ExtractFunctions(_, _, _)
ExtractFunctions(fns, relativePath, options) ==
    IF fns = <<>> THEN <<>>
    ELSE LET decl == Head(fns)
             exported == isExported(decl)
         IN  (IF options.exportedOnly /\ ~exported THEN <<>>
              ELSE << SignatureInfo(relativePath,
                          IF decl.name = "" THEN "(anonymous)" ELSE decl.name,
                          "function", getFunctionSignature(decl), getJsDoc(decl), exported,
                          decl.startLine) >>)
             \o ExtractFunctions(Tail(fns), relativePath, options)

\* extractFromSourceFile: the loop over cls.getMethods()
RECURSIVE ExtractMethods(_, _, _, _, _)
ExtractMethods(methods, className, classExported, relativePath, options) ==
    IF methods = <<>> THEN <<>>
    ELSE LET method == Head(methods)
             isPrivate == method.scope = "private"
         IN  (IF ~options.includePrivate /\ isPrivate THEN <<>>
              ELSE << MethodInfo(relativePath, method.name,
                          getMethodSignature(method, className), getJsDoc(method),
                          classExported, method.startLine, className) >>)
             \o ExtractMethods(Tail(methods), className, classExported, relativePath, options)

RECURSIVE ExtractClasses(_, _, _)

\* a loop that drops the record of a filtered class but keeps its methods
ExtractClassesKeepMethods(classes, relativePath, options) ==
    IF classes = <<>> THEN <<>>
    ELSE LET cls == Head(classes)
             classExported == isExported(cls)
             className == IF cls.name = "" THEN "(anonymous)" ELSE cls.name
         IN  (IF options.exportedOnly /\ ~classExported THEN <<>>
              ELSE << SignatureInfo(relativePath, className, "class",
                          getClassSignature(cls), getJsDoc(cls), classExported,
                          cls.startLine) >>)
             \o ExtractMethods(cls.methods, className, classExported, relativePath, options)
             \o ExtractClasses(Tail(classes), relativePath, options)

\* extractFromSourceFile: the loop over sourceFile.getClasses()
ExtractClasses(classes, relativePath, options) ==
    IF classes = <<>> THEN <<>>
    ELSE LET cls == Head(classes)
             classExported == isExported(cls)
             className == IF cls.name = "" THEN "(anonymous)" ELSE cls.name
         IN  (IF options.exportedOnly /\ ~classExported THEN <<>>
              ELSE << SignatureInfo(relativePath, className, "class",
                          getClassSignature(cls), getJsDoc(cls), classExported,
                          cls.startLine) >>
                   \o ExtractMethods(cls.methods, className, classExported, relativePath,
                                     options))
             \o ExtractClasses(Tail(classes), relativePath, options)

\* extractFromSourceFile: the loops over getInterfaces() and getTypeAliases()
RECURSIVE ExtractTypes(_, _, _)
ExtractTypes(decls, relativePath, options) ==
    IF decls = <<>> THEN <<>>
    ELSE LET decl == Head(decls)
             exported == isExported(decl)
         IN  (IF options.exportedOnly /\ ~exported THEN <<>>
              ELSE << SignatureInfo(relativePath, decl.name,
                          IF decl.kind = "InterfaceDeclaration" THEN "interface" ELSE "type",
                          IF decl.kind = "InterfaceDeclaration"
                          THEN getInterfaceSignature(decl) ELSE getTypeSignature(decl),
                          getJsDoc(decl), exported, decl.startLine) >>)
             \o ExtractTypes(Tail(decls), relativePath, options)

extractFromSourceFile(sourceFile, options) ==
    LET relativePath == PathRelative(Cwd, sourceFile.path)
    IN  ExtractFunctions(OfKind(sourceFile, "FunctionDeclaration"), relativePath, options)
        \o ExtractClasses(OfKind(sourceFile, "ClassDeclaration"), relativePath, options)
        \o (IF options.includeTypes
            THEN ExtractTypes(OfKind(sourceFile, "InterfaceDeclaration"), relativePath,
                              options)
                 \o ExtractTypes(OfKind(sourceFile, "TypeAliasDeclaration"), relativePath,
                                 options)
            ELSE <<>>)

\* formatSignature: the jsdoc, if any, a newline, and the signature line
formatSignature(sig) ==
    LET exportPrefix == IF sig.exported THEN "export " ELSE ""
        text == IF sig.kind = "method" /\ "className" \in DOMAIN sig /\ sig.className # ""
                THEN <<"  ">> \o sig.signature
                ELSE <<exportPrefix>> \o sig.signature
    IN  IF sig.jsdoc # <<>> THEN sig.jsdoc \o <<"\n">> \o text ELSE text

\* groupByFile: the files in order of first appearance, each with its records
RECURSIVE FilesOf(_, _)
FilesOf(signatures, seen) ==
    IF signatures = <<>> THEN seen
    ELSE FilesOf(Tail(signatures), SetAdd(seen, Head(signatures).file))

groupByFile(signatures) ==
    LET files == FilesOf(signatures, <<>>)
    IN  [i \in 1..Len(files) |->
            [file |-> files[i],
             sigs |-> SelectSeq(signatures, LAMBDA sig : sig.file = files[i])]]

\* null of currentClass
NoClass == <<"null">>

\* sig.className, undefined for a record that is no method
ClassNameOf(sig) == IF "className" \in DOMAIN sig THEN <<sig.className>> ELSE <<"undefined">>

\* main: the loop over the records of one file; currentClass is NoClass or
\* <<name>>
RECURSIVE PrintSigs(_, _)
PrintSigs(sigs, currentClass) ==
    IF sigs = <<>> THEN (IF currentClass # NoClass THEN << <<"}">> >> ELSE <<>>)
    ELSE LET sig == Head(sigs)
         IN  IF sig.kind = "class"
             THEN <<formatSignature(sig) \o <<" {">> >> \o PrintSigs(Tail(sigs), <<sig.name>>)
             ELSE IF sig.kind = "method" /\ ClassNameOf(sig) = currentClass
             THEN <<formatSignature(sig)>> \o PrintSigs(Tail(sigs), currentClass)
             ELSE IF currentClass # NoClass /\ ClassNameOf(sig) # currentClass
             THEN << <<"}", "\n">>, formatSignature(sig) >> \o PrintSigs(Tail(sigs), NoClass)
             ELSE <<formatSignature(sig)>> \o PrintSigs(Tail(sigs), currentClass)

\* main: the grouped listing of all files
RECURSIVE PrintGroups(_)
PrintGroups(groups) ==
    IF groups = <<>> THEN <<>>
    ELSE << <<"\n", "// ">> \o Head(groups).file \o <<"\n">> >>
         \o PrintSigs(Head(groups).sigs, NoClass)
         \o PrintGroups(Tail(groups))

----------------------------------------------------------------------------
(* extract-signatures.ts: main *)

\* main: no source files, process.exit(1)
ExtractNoSourceFiles ==
    /\ xpc = "main"
    /\ Len(xfiles) = 0
    /\ xstatus' = 1
    /\ xpc' = "exit"
    /\ UNCHANGED <<xoptions, xfiles, xIdx, allSignatures, listing>>
    /\ UNCHANGED <<depVars, traceVars, smellVars>>

\* main: one iteration of the loop over the source files
ExtractSourceFile ==
    /\ xpc = "main"
    /\ xIdx < Len(xfiles)
    /\ allSignatures' = allSignatures \o extractFromSourceFile(xfiles[xIdx + 1], xoptions)
    /\ xIdx' = xIdx + 1
    /\ UNCHANGED <<xoptions, xfiles, xpc, listing, xstatus>>
    /\ UNCHANGED <<depVars, traceVars, smellVars>>

\* main: JSON.stringify(allSignatures) in one console.log
PrintJson ==
    /\ xpc = "main"
    /\ Len(xfiles) > 0 /\ xIdx = Len(xfiles)
    /\ xoptions.jsonOutput
    /\ listing' = << <<"json">> >>
    /\ xstatus' = 0
    /\ xpc' = "exit"
    /\ UNCHANGED <<xoptions, xfiles, xIdx, allSignatures>>
    /\ UNCHANGED <<depVars, traceVars, smellVars>>

\* main: the grouped textual listing
PrintListing ==
    /\ xpc = "main"
    /\ Len(xfiles) > 0 /\ xIdx = Len(xfiles)
    /\ ~xoptions.jsonOutput
    /\ listing' = PrintGroups(groupByFile(allSignatures))
    /\ xstatus' = 0
    /\ xpc' = "exit"
    /\ UNCHANGED <<xoptions, xfiles, xIdx, allSignatures>>
    /\ UNCHANGED <<depVars, traceVars, smellVars>>

NextExtract ==
    \/ ExtractNoSourceFiles
    \/ ExtractSourceFile
    \/ PrintJson
    \/ PrintListing

----------------------------------------------------------------------------
(* Source files and options explored by the signature extractor *)

\* the largest number of statements of a source file
MaxDecls == 3

XFunction(name, exportKeyword, async, params, jsDocs) ==
    [kind |-> "FunctionDeclaration", name |-> name, exportKeyword |-> exportKeyword,
     async |-> async, typeParams |-> <<>>, params |-> params, returnType |-> "void",
     jsDocs |-> jsDocs]

XMethod(name, scope, static, jsDocs) ==
    [kind |-> "MethodDeclaration", name |-> name, scope |-> scope, static |-> static,
     async |-> FALSE, typeParams |-> <<>>, params |-> <<>>, returnType |-> "void",
     jsDocs |-> jsDocs]

XClass(name, exportKeyword, typeParams, extends, methods) ==
    [kind |-> "ClassDeclaration", name |-> name, exportKeyword |-> exportKeyword,
     typeParams |-> typeParams, extends |-> extends, implements |-> <<>>,
     methods |-> methods, jsDocs |-> <<>>]

XInterface(name, exportKeyword) ==
    [kind |-> "InterfaceDeclaration", name |-> name, exportKeyword |-> exportKeyword,
     typeParams |-> <<>>, extends |-> <<>>, jsDocs |-> <<>>]

XTypeAlias(name, exportKeyword) ==
    [kind |-> "TypeAliasDeclaration", name |-> name, exportKeyword |-> exportKeyword,
     typeParams |-> << <<"T">> >>, typeText |-> "T[]", jsDocs |-> <<>>]

\* the statements a source file is made of
StatementPool ==
    << XFunction("f", TRUE, TRUE, <<[name |-> "a", optional |-> TRUE, type |-> "number"]>>,
                 << <<"/** f */">> >>),
       XFunction("g", FALSE, FALSE, <<>>, <<>>),
       XClass("A", TRUE, << <<"T">> >>, "Base",
              <<XMethod("m", "public", FALSE, << <<"/** m */">> >>),
                XMethod("p", "private", TRUE, <<>>)>>),
       XClass("B", FALSE, <<>>, "", <<XMethod("n", "public", FALSE, <<>>)>>),
       XClass("E", TRUE, <<>>, "", <<>>),
       XInterface("I", TRUE),
       XTypeAlias("T", FALSE) >>

\* a statement at its place in the file: its start line and, for a class,
\* those of its methods
Placed(decl, line) ==
    IF decl.kind = "ClassDeclaration"
    THEN [decl EXCEPT !.methods = [j \in 1..Len(decl.methods) |->
                                      [kind |-> decl.methods[j].kind,
                                       name |-> decl.methods[j].name,
                                       scope |-> decl.methods[j].scope,
                                       static |-> decl.methods[j].static,
                                       async |-> decl.methods[j].async,
                                       typeParams |-> decl.methods[j].typeParams,
                                       params |-> decl.methods[j].params,
                                       returnType |-> decl.methods[j].returnType,
                                       jsDocs |-> decl.methods[j].jsDocs,
                                       startLine |-> line + j]]]
         @@ [startLine |-> line]
    ELSE decl @@ [startLine |-> line]

\* the source file of the given pool statements, ten lines apart
XSourceFile(rel, picks) ==
    [path |-> File(rel),
     statements |-> [i \in 1..Len(picks) |-> Placed(StatementPool[picks[i]], 10 * i)]]

\* the lists of at most n different pool statements
PicksUpTo(n) ==
    UNION { {p \in [1..m -> 1..Len(StatementPool)] :
                \A i, j \in 1..m : i # j => p[i] # p[j]} : m \in 0..n }

XOptions ==
    [exportedOnly : BOOLEAN, includeTypes : BOOLEAN, jsonOutput : BOOLEAN,
     includePrivate : BOOLEAN]

InitExtract ==
    /\ \/ xfiles \in {<<XSourceFile(<<"a", ".ts">>, picks)>> : picks \in PicksUpTo(MaxDecls)}
       \/ xfiles \in {<<XSourceFile(<<"a", ".ts">>, p), XSourceFile(<<"b", ".ts">>, q)>> :
                         p \in PicksUpTo(1), q \in PicksUpTo(1)}
       \/ xfiles = <<>>
    /\ xoptions \in XOptions
    /\ xpc = "main" /\ xIdx = 0 /\ allSignatures = <<>> /\ listing = <<>> /\ xstatus = -1
    /\ SmellsIdle
    /\ args = NoArgs
    /\ sourceFiles = <<>>
    /\ project = <<>>
    /\ DepsIdle
    /\ argv = NoArgv
    /\ program = <<>>
    /\ TraceIdle

SpecExtract == InitExtract /\ [][NextExtract]_vars

----------------------------------------------------------------------------
(* Properties of the dependency graph and of cycle detection *)

\* the cycle a SmellReport carries in its details
CycleOfReport(r) == SplitOn(r.details, ARROW)

\* the cycles reported over the graph now held: those of findCircularDeps
\* while its graph is held, those of checkCircularDeps afterwards
ReportedCycles ==
    IF pc \in {"find", "smells"} THEN cycles
    ELSE [i \in 1..Len(reports) |-> CycleOfReport(reports[i])]

IsEdge(g, x, y) == y \in Range(MapGet(g, x))

WellFormedCycle(g, c) ==
    /\ Len(c) >= 2
    /\ c[1] = Last(c)
    /\ NoDup(Front(c))
    /\ \A i \in 1..(Len(c) - 1) : IsEdge(g, c[i], c[i + 1])

\* c and d list the same cycle: equal, or rotations of one another
SameCycle(c, d) ==
    /\ Len(c) = Len(d)
    /\ Len(c) >= 2
    /\ \E k \in 0..(Len(c) - 2) :
          \A i \in 1..(Len(c) - 1) : d[i] = c[((i - 1 + k) % (Len(c) - 1)) + 1]

\* the graph key of the i-th source file
UnitKey(proj, i) == PathRelative(Cwd, proj[i].path)

UnitKeys(proj) == {UnitKey(proj, i) : i \in 1..Len(proj)}

IsLocal(spec) == StartsWithDot(spec) \/ StartsWithSlash(spec)

\* the path a local specifier of source file i stands for, before any probing
Candidate(proj, i, spec) == Normalize(PathJoin(Dirname(UnitKey(proj, i)), spec))

\* source file i imports source file j: a specifier of i names j's path,
\* with j's extension or without it
ImportsUnit(proj, i, j) ==
    \E n \in 1..Len(proj[i].imports) :
        LET imp == proj[i].imports[n]
        IN  /\ IsLocal(imp.spec)
            /\ imp.names > 0
            /\ \/ Candidate(proj, i, imp.spec) = UnitKey(proj, j)
               \/ \E e \in 1..4 : Candidate(proj, i, imp.spec) \o Exts[e] = UnitKey(proj, j)

\* C1: every reported cycle repeats no node except that its first and last
\* entries are the same node, and every consecutive pair of its nodes is an
\* edge of the graph.
C1_CyclesAreSimplePathsOfEdges ==
    \A i \in 1..Len(ReportedCycles) : WellFormedCycle(graph, ReportedCycles[i])

\* a cycle has just been cut out of a longer path: it starts below the
\* DFS entry point
C1_Witness ==
    /\ pc = "check"
    /\ reports # <<>>
    /\ Len(pathStack) = 3
    /\ Len(CycleOfReport(Last(reports))) = 3
    /\ CycleOfReport(Last(reports))[1] = pathStack[2]

\* C2: three units A, B, C with A importing B, B importing C and C
\* importing A through relative specifiers: buildDependencyGraph followed by
\* findCircularDeps reports exactly one cycle, A -> B -> C -> A.
C2_ThreeUnitRingReportedOnce ==
    \A a, b, c \in 1..Len(project) :
        ( /\ pc = "smells"
          /\ Len(project) = 3
          /\ {a, b, c} = 1..3
          /\ \A i \in 1..3 : Len(project[i].imports) = 1
          /\ ImportsUnit(project, a, b)
          /\ ImportsUnit(project, b, c)
          /\ ImportsUnit(project, c, a) )
        => /\ Len(cycles) = 1
           /\ SameCycle(cycles[1], <<UnitKey(project, a), UnitKey(project, b),
                                     UnitKey(project, c), UnitKey(project, a)>>)

\* the edge target the probing rule gives a candidate that names no unit
ProbedTarget(proj, cand) ==
    LET known == {e \in 1..Len(Exts) : cand \o Exts[e] \in UnitKeys(proj)}
    IN  IF known = {} THEN cand
        ELSE cand \o Exts[CHOOSE e \in known : \A f \in known : e <= f]

\* C3: in a built graph, a local specifier that does not exactly name a
\* known unit gives the edge target found by probing .ts, .tsx, .js, .jsx,
\* /index.ts, /index.tsx, /index.js in that order (the first candidate that
\* is a graph key), and the unprobed candidate only when none matches.
C3_EdgeTargetsAreProbed ==
    pc \in {"find", "smells", "check", "done"} =>
        \A i \in 1..Len(project) : \A n \in 1..Len(project[i].imports) :
            LET imp == project[i].imports[n]
                cand == Candidate(project, i, imp.spec)
            IN  (IsLocal(imp.spec) /\ imp.names > 0 /\ cand \notin UnitKeys(project))
                => Range(MapGet(graph, UnitKey(project, i))) = {ProbedTarget(project, cand)}

\* C4: no two reported cycles are the same cycle, neither as identical
\* sequences nor as rotations of one another, whatever entry points the DFS
\* takes.
C4_EachCycleReportedOnce ==
    \A i, j \in 1..Len(ReportedCycles) :
        i # j => ~SameCycle(ReportedCycles[i], ReportedCycles[j])

\* the DFS of a later entry point stands at an edge into a cycle that an
\* earlier entry point has reported
C4_Witness ==
    /\ pc = "find"
    /\ keyIdx >= 2
    /\ Len(frames) = 1
    /\ AtDep
    /\ cycles # <<>>
    /\ NextDep \in Range(cycles[1])
    /\ NextDep \in visited \ recursionStack

C5_KeysAreTheUnits ==
    pc \in {"find", "smells", "check", "done"} =>
        /\ Len(graph) = Len(project)
        /\ \A i \in 1..Len(project) :
              /\ PathResolve(graph[i].file) = project[i].path
              /\ (\A n \in 1..Len(project[i].imports) : ~IsLocal(project[i].imports[n].spec))
                    => graph[i].deps = <<>>

\* C5: every source unit is a key of the built graph, a unit without local
\* imports mapped to the empty set and no other path being a key, and no
\* step of cycle detection changes the graph.
C5_UnitsAreKeysAndDetectionReadsOnly ==
    /\ []C5_KeysAreTheUnits
    /\ [][InDfs => graph' = graph]_vars

\* findCircularDeps has run over a graph with a unit without dependencies
\* and an edge to a path that is no unit
C5_Witness ==
    /\ pc = "smells"
    /\ \E i \in 1..Len(graph) : graph[i].deps = <<>>
    /\ \E i \in 1..Len(graph) : \E d \in Range(graph[i].deps) : ~MapHas(graph, d)

----------------------------------------------------------------------------
(* Properties of the call hierarchy tracer *)

\* the identity of a declaration or of a CallNode: source unit path and name
IdOf(file, name) == <<file, name>>

NodeId(node) == IdOf(node.file, node.name)

DeclId(d) == IdOf(PathRelative(Cwd, d.file), NameOf(d))

\* the declaration a CallNode of the upward trace stands for
DeclOfNode(node) == CHOOSE d \in Decls : DeclId(d) = NodeId(node)

Max(a, b) == IF a >= b THEN a ELSE b

\* the number of edges of the longest path from the root into nodes
RECURSIVE TreeDepth(_)
TreeDepth(nodes) ==
    IF nodes = <<>> THEN 0
    ELSE Max(1 + TreeDepth(Head(nodes).children), TreeDepth(Tail(nodes)))

\* no identity of ids, and none met on the way down, occurs again below
RECURSIVE NoRepeatOnPaths(_, _)
NoRepeatOnPaths(nodes, ids) ==
    \A i \in 1..Len(nodes) :
        /\ NodeId(nodes[i]) \notin ids
        /\ NoRepeatOnPaths(nodes[i].children, ids \cup {NodeId(nodes[i])})

BoundedAndRepeatFree(nodes) ==
    /\ TreeDepth(nodes) <= MaxDepthOf(argv)
    /\ NoRepeatOnPaths(nodes, {DeclId(fn)})

\* C6: in a trace with maxDepth = N, upward or downward, no path from the
\* root has more than N edges and no declaration identity (source unit path
\* and name) occurs twice on a root-to-leaf path, the root included.
C6_TracesBoundedAndRepeatFree ==
    /\ "up" \in traced => BoundedAndRepeatFree(callers)
    /\ "down" \in traced => BoundedAndRepeatFree(callees)

\* the plain calls f -> g, g -> h, h -> f
RingProgram ==
    << CallSite(DeclF, DeclG, FALSE, "g"),
       CallSite(DeclG, DeclH, FALSE, "h"),
       CallSite(DeclH, DeclF, FALSE, "f") >>

\* C7: f calls g, g calls h, h calls f: the downward trace of f with
\* maxDepth = 2 is f -> g -> h, h without children and f nowhere below the
\* root.
C7_RingTracedDownToDepthTwo ==
    (program = RingProgram /\ MaxDepthOf(argv) = 2 /\ "down" \in traced)
    => callees = << CallNode("g", <<"m", ".ts">>, DeclG.line,
                        << CallNode("h", <<"n", ".ts">>, DeclH.line, <<>>) >>) >>

C7_Witness ==
    /\ program = RingProgram
    /\ MaxDepthOf(argv) = 2
    /\ "down" \in traced
    /\ fn = DeclF

\* the named functions that hold a reference to the declaration of node
\* and lie on the path ids (the node itself included)
CallersOnPath(node, ids) ==
    {ref.in : ref \in {r \in Range(ReferencesTo(program, DeclOfNode(node))) :
                          /\ FirstAncestor(r).kind = "FunctionDeclaration"
                          /\ DeclId(r.in) \in ids \cup {NodeId(node)}}}

\* every caller on the current path is a child without children
RECURSIVE VisitedCallersAreLeaves(_, _, _)
VisitedCallersAreLeaves(nodes, ids, level) ==
    \A i \in 1..Len(nodes) :
        /\ level < MaxDepthOf(argv) =>
              \A c \in CallersOnPath(nodes[i], ids) :
                  \E k \in 1..Len(nodes[i].children) :
                      /\ NodeId(nodes[i].children[k]) = DeclId(c)
                      /\ nodes[i].children[k].children = <<>>
        /\ VisitedCallersAreLeaves(nodes[i].children, ids \cup {NodeId(nodes[i])}, level + 1)

\* no caller on the current path is a child
RECURSIVE VisitedCallersAreOmitted(_, _, _)
VisitedCallersAreOmitted(nodes, ids, level) ==
    \A i \in 1..Len(nodes) :
        /\ \A c \in CallersOnPath(nodes[i], ids) :
              \A k \in 1..Len(nodes[i].children) : NodeId(nodes[i].children[k]) # DeclId(c)
        /\ VisitedCallersAreOmitted(nodes[i].children, ids \cup {NodeId(nodes[i])}, level + 1)

\* the root as a node of its own upward tree
RootOf(nodes) == << CallNode(NameOf(fn), PathRelative(Cwd, fn.file), fn.line, nodes) >>

\* C8 as stated: in an upward trace a caller whose declaration is already
\* on the current recursion path is still emitted, as a CallNode without
\* children.
C8_VisitedCallerEmittedAsLeaf ==
    "up" \in traced => VisitedCallersAreLeaves(RootOf(callers), {}, 0)

\* C8 as amended: in an upward trace a caller whose declaration is already
\* on the current recursion path is not emitted: no child of the node
\* stands for it.
C8_VisitedCallerOmitted ==
    "up" \in traced => VisitedCallersAreOmitted(RootOf(callers), {}, 0)

\* some expanded node of the upward tree is referenced from a function on
\* its own path
RECURSIVE SomeCallerOnPath(_, _, _)
SomeCallerOnPath(nodes, ids, level) ==
    \E i \in 1..Len(nodes) :
        \/ level < MaxDepthOf(argv) /\ CallersOnPath(nodes[i], ids) # {}
        \/ SomeCallerOnPath(nodes[i].children, ids \cup {NodeId(nodes[i])}, level + 1)

C8_Witness ==
    /\ "up" \in traced
    /\ callers # <<>>
    /\ SomeCallerOnPath(callers, {DeclId(fn)}, 1)

\* C9: in an upward trace every reference is attributed to its smallest
\* enclosing named function or method, also when it lies in an arrow
\* function or inline callback nested in that function; only references
\* without an enclosing named function give no caller.
C9_ReferencesAttributedToNamedFunction ==
    "up" \in traced =>
        /\ \A ref \in Range(ReferencesTo(program, fn)) :
              (ref.in # NoDecl /\ ref.in # fn)
              => \E k \in 1..Len(callers) : NodeId(callers[k]) = DeclId(ref.in)
        /\ \A k \in 1..Len(callers) :
              \E ref \in Range(ReferencesTo(program, fn)) :
                  ref.in # NoDecl /\ NodeId(callers[k]) = DeclId(ref.in)

\* C10: with a target and a depth but neither --up nor --down, the tracer
\* traces both directions.
C10_NoFlagTracesBothDirections ==
    (tpc = "exit" /\ exitCode = 0 /\ ~argv.up /\ ~argv.down) => traced = {"up", "down"}


\* the name given on the command line is no declaration of the target file
NotLocated ==
    ~ \E d \in Decls : d.file = PathResolve(argv.file) /\ d.name = argv.name

\* C11: when the target file has no function or method of the given name,
\* the tracer ends with a nonzero exit status and has traced no direction:
\* no caller tree, no callee tree, nothing printed.
C11_NotFoundExitsNonzeroWithoutTrace ==
    (NotLocated /\ tpc # "main") =>
        /\ tpc = "exit"
        /\ exitCode # 0 /\ exitCode # -1
        /\ traced = {}
        /\ callers = <<>> /\ callees = <<>>
        /\ out = <<>>

\* h is declared in another file of the project, not in the target file
C11_Witness ==
    /\ tpc = "exit" /\ exitCode = 1
    /\ argv.name = "h" /\ argv.down
    /\ Len(program) = 1

\* the program without the calls whose symbol has no declaration
Resolvable(prog) == SelectSeq(prog, LAMBDA site : site.def # NoDecl)

Unresolved(prog, node) ==
    { i \in 1..Len(prog) : prog[i].in = node /\ prog[i].def = NoDecl }

\* C12: in a downward trace an unresolvable call gives no CallNode and no
\* error, and the tree is the one traced from the same program without the
\* unresolvable calls.
C12_UnresolvableCallsAreSkipped ==
    ("down" \in traced) =>
        /\ callees = getCallees(Resolvable(program), fn, 0, MaxDepthOf(argv), {})
        /\ exitCode \in {-1, 0}

\* an unresolvable call precedes two resolvable ones in the traced body
C12_Witness ==
    /\ tpc = "exit" /\ "down" \in traced
    /\ Len(program) = 3
    /\ 1 \in Unresolved(program, fn)
    /\ Len(callees) = 2

\* the nodes of a forest in pre-order, each with its depth
RECURSIVE PreOrder(_, _)
PreOrder(nodes, level) ==
    IF nodes = <<>> THEN <<>>
    ELSE <<[node |-> Head(nodes), level |-> level]>>
         \o PreOrder(Head(nodes).children, level + 1)
         \o PreOrder(Tail(nodes), level)

\* line is the printFlat line of entry e: one indent unit per level below
\* the first indent that main passes
IsFlatLine(line, e, direction) ==
    line = Repeat("  ", e.level + 1) \o NodeText(e.node, direction)

\* line is the printTree line of entry e: one prefix unit per level, then a
\* connector, then the node
IsTreeLine(line, e, direction) ==
    /\ Len(line) = e.level + 1 + Len(NodeText(e.node, direction))
    /\ \A k \in 1..e.level : line[k] \in {"    ", "|   "}
    /\ line[e.level + 1] \in {"+-- ", "|-- "}
    /\ SubSeq(line, e.level + 2, Len(line)) = NodeText(e.node, direction)

RenderersFollowTree(nodes, direction) ==
    LET pre == PreOrder(nodes, 0)
        flat == printFlat(nodes, 1, direction)
        tree == printTree(nodes, <<>>, TRUE, direction)
    IN  /\ Len(flat) = Len(pre)
        /\ Len(tree) = Len(pre)
        /\ \A i \in 1..Len(pre) :
              /\ IsFlatLine(flat[i], pre[i], direction)
              /\ IsTreeLine(tree[i], pre[i], direction)

\* C13: printFlat and printTree write one line per CallNode, in pre-order,
\* and the nesting level of a line (indent units, prefix units) is the depth
\* of its node; what main printed for a direction is that rendering.
C13_RenderersFollowTree ==
    /\ RenderersFollowTree(callers, "up")
    /\ RenderersFollowTree(callees, "down")
    /\ (tpc = "exit" /\ exitCode = 0 /\ Direction(argv) = "down" /\ callees # <<>>) =>
          SubSeq(out, 2, Len(out) - 1)
              = (IF argv.tree THEN printTree(callees, <<>>, TRUE, "down")
                 ELSE printFlat(callees, 1, "down"))

\* a printed tree with two siblings, the first of which has a child
C13_Witness ==
    /\ tpc = "exit" /\ argv.tree
    /\ Len(callees) = 2
    /\ Len(callees[1].children) > 0
    /\ Len(out) > 3


\* C27: in the upward trace every named function that holds a reference to
\* the traced declaration, and is not the traced declaration itself, is a
\* direct child of the root, also when an earlier sibling's subtree has
\* expanded it already.
C27_EveryCallerIsChildOfRoot ==
    "up" \in traced =>
        \A ref \in Range(ReferencesTo(program, fn)) :
            (FirstAncestor(ref).kind = "FunctionDeclaration" /\ DeclId(ref.in) # DeclId(fn))
            => \E k \in 1..Len(callers) : NodeId(callers[k]) = DeclId(ref.in)

\* no two nodes of a list of siblings, at any level below, have one identity
RECURSIVE NoTwinSiblings(_)
NoTwinSiblings(nodes) ==
    /\ \A i, j \in 1..Len(nodes) : i # j => NodeId(nodes[i]) # NodeId(nodes[j])
    /\ \A i \in 1..Len(nodes) : NoTwinSiblings(nodes[i].children)

\* C28: in the upward trace a caller with several references to a callee is
\* one child of that callee, at every depth of the tree, the last level that
\* maxDepth allows included.
C28_CallerAppearsOncePerCallee ==
    "up" \in traced => NoTwinSiblings(callers)

----------------------------------------------------------------------------
(* Properties of the smell detector *)

Options == OptionsOf(args)

\* the source files the loop of main has passed
Passed == 1..fileIdx

\* the findings of a type at a line of a file
FindingsAt(type, sf, line) ==
    SelectSeq(allReports, LAMBDA r : /\ r.type = type
                                     /\ r.file = PathRelative(Cwd, sf.path)
                                     /\ "line" \in DOMAIN r
                                     /\ r.line = line)

\* the functions and methods of a source file
DeclarationsOf(sf) ==
    Range(sf.functions) \cup UNION {Range(sf.classes[k].methods) : k \in 1..Len(sf.classes)}

\* the exported-only filter lets the declaration through
Examined(d) == ~Options.exportedOnly \/ isExported(d)

LargeFunctionVerdict(d, sf) ==
    LET found == FindingsAt("large-function", sf, d.startLine)
        lines == d.endLine - d.startLine + 1
        max == Options.thresholds.maxFunctionLines
    IN  /\ lines <= max => Len(found) = 0
        /\ (max < lines /\ lines <= 2 * max) =>
              Len(found) = 1 /\ found[1].severity = "warning"
        /\ lines > 2 * max =>
              Len(found) = 1 /\ found[1].severity = "error"

HasError(found) == \E i \in 1..Len(found) : found[i].severity = "error"

\* C15: a run that analysed at least one source file exits with a nonzero
\* status exactly when one of the collected findings is an error; with
\* warnings only, or with no finding, the status is zero.
C15_ExitStatusTellsErrors ==
    (spc = "exit" /\ Len(sourceFiles) > 0) =>
        /\ status # -1
        /\ (status # 0) <=> HasError(allReports)

\* a run whose findings are all warnings
C15_Witness ==
    /\ spc = "exit" /\ Len(sourceFiles) > 0
    /\ allReports # <<>>
    /\ ~HasError(allReports)
    /\ status = 0

IsMethodCountFinding(r) == Last(r.message) = " methods"

IsPropertyCountFinding(r) == Last(r.message) = " properties"

GodClassVerdict(cls, sf) ==
    LET found == FindingsAt("god-class", sf, cls.startLine)
        byMethods == SelectSeq(found, IsMethodCountFinding)
        byProperties == SelectSeq(found, IsPropertyCountFinding)
        methods == Len(cls.methods)
    IN  /\ Len(found) = Len(byMethods) + Len(byProperties)
        /\ methods <= 20 => Len(byMethods) = 0
        /\ (20 < methods /\ methods <= 30) =>
              Len(byMethods) = 1 /\ byMethods[1].severity = "warning"
        /\ methods > 30 => Len(byMethods) = 1 /\ byMethods[1].severity = "error"
        /\ cls.properties <= 15 => Len(byProperties) = 0
        /\ cls.properties > 15 =>
              Len(byProperties) = 1 /\ byProperties[1].severity = "warning"
        /\ (methods = 25 /\ cls.properties = 10) =>
              Len(found) = 1 /\ found[1].severity = "warning"

\* C16: per class the god-classes check gives one finding for more than 20
\* methods (warning up to 30, error above) and a separate warning for more
\* than 15 properties; 25 methods and 10 properties give exactly one
\* finding, a warning.
C16_GodClassFindings ==
    ("god-classes" \in Options.checks) =>
        \A i \in Passed : \A k \in 1..Len(sourceFiles[i].classes) :
            GodClassVerdict(sourceFiles[i].classes[k], sourceFiles[i])

\* the class of the scenario: 25 methods, 10 properties, one warning
C16_Witness ==
    /\ spc = "exit"
    /\ "god-classes" \in Options.checks
    /\ Len(sourceFiles) = 1
    /\ Len(sourceFiles[1].classes) = 1
    /\ Len(sourceFiles[1].classes[1].methods) = 25
    /\ sourceFiles[1].classes[1].properties = 10
    /\ Len(FindingsAt("god-class", sourceFiles[1], 1)) = 1

\* the finding types a check produces
TypesOf(check) ==
    CASE check = "circular-deps" -> {"circular-dependency"}
      [] check = "large-functions" -> {"large-function", "high-complexity"}
      [] check = "many-params" -> {"many-params"}
      [] check = "missing-jsdoc" -> {"missing-jsdoc"}
      [] check = "deep-nesting" -> {"deep-nesting"}
      [] check = "large-files" -> {"large-file"}
      [] check = "god-classes" -> {"god-class"}
      [] OTHER -> {}

\* the findings of one check on one source file, run on its own
AloneOn(check, sf) == FileReports(sf, [Options EXCEPT !.checks = {check}])

\* the findings of one check over the run, run on its own
Alone(check) ==
    (IF check = "circular-deps" THEN checkCircularDeps(sourceFiles) ELSE <<>>)
    \o Concat([i \in 1..Len(sourceFiles) |-> AloneOn(check, sourceFiles[i])])

Enabled(check) == check \in Options.checks

\* C17: what a check contributes to a run does not depend on the other
\* enabled checks (it is what the check finds when enabled alone), and the
\* result of the run is the concatenation of the enabled checks' findings:
\* those of circular-deps, then file by file those of each enabled check.
C17_ChecksAreIndependent ==
    (spc = "exit" /\ Len(sourceFiles) > 0) =>
        /\ \A k \in 1..Len(ALL_CHECKS) :
              Enabled(ALL_CHECKS[k]) =>
                  SelectSeq(allReports, LAMBDA r : r.type \in TypesOf(ALL_CHECKS[k]))
                      = Alone(ALL_CHECKS[k])
        /\ allReports =
              (IF Enabled("circular-deps") THEN checkCircularDeps(sourceFiles) ELSE <<>>)
              \o Concat([i \in 1..Len(sourceFiles) |->
                     Concat([k \in 1..Len(ALL_CHECKS) |->
                         IF Enabled(ALL_CHECKS[k]) /\ ALL_CHECKS[k] # "circular-deps"
                         THEN AloneOn(ALL_CHECKS[k], sourceFiles[i]) ELSE <<>>])])

\* two enabled checks that both find something in the same file
C17_Witness ==
    /\ spc = "exit"
    /\ args.checks = <<"many-params", "large-functions">>
    /\ \E i, j \in 1..Len(allReports) :
          /\ allReports[i].type = "large-function"
          /\ allReports[j].type = "many-params"
          /\ allReports[i].file = allReports[j].file

\* the classes whose methods the exported-only flag is asked about
MethodFindings(type, sf, cls) ==
    Concat([k \in 1..Len(cls.methods) |-> FindingsAt(type, sf, cls.methods[k].startLine)])

\* C20: with the exported-only flag a method counts as exported when its
\* class is: a method of an exported class over the large-functions or the
\* many-params limit is reported, a method of a class that is not exported
\* is skipped.
C20_MethodsFollowOwningClass ==
    (spc = "exit" /\ Options.exportedOnly) =>
        \A i \in 1..Len(sourceFiles) : \A k \in 1..Len(sourceFiles[i].classes) :
            LET sf == sourceFiles[i]
                cls == sf.classes[k]
            IN  \A m \in Range(cls.methods) :
                   /\ ("large-functions" \in Options.checks
                       /\ countLines(m) > Options.thresholds.maxFunctionLines) =>
                          (isExported(cls) <=>
                             Len(FindingsAt("large-function", sf, m.startLine)) > 0)
                   /\ ("many-params" \in Options.checks
                       /\ m.params > Options.thresholds.maxParams) =>
                          (isExported(cls) <=>
                             Len(FindingsAt("many-params", sf, m.startLine)) > 0)


----------------------------------------------------------------------------
(* Properties of the circular-deps findings *)

Contains(hay, needle) ==
    \E k \in 1..(Len(hay) - Len(needle) + 1) :
        SubSeq(hay, k, k + Len(needle) - 1) = needle

\* C18 as stated: each finding of the circular-deps check is an error whose
\* message field contains the nodes of the cycle in order.
C18_CycleFindingMessageHoldsPath ==
    (pc \in {"check", "done"}) =>
        \A i \in 1..Len(reports) :
            /\ reports[i].severity = "error"
            /\ Contains(reports[i].message,
                        JoinWith(CycleOfReport(reports[i]), <<ARROW>>))

\* C18 as amended: each detected cycle is one finding of severity error; its
\* message is the fixed text and its details field holds the nodes of the
\* cycle in order, from the node the cycle starts at back to that node. The
\* findings are those checkCircularDeps returns to main.
C18_CycleFindingDetailsHoldPath ==
    /\ (pc \in {"check", "done"}) =>
          /\ \A i \in 1..Len(reports) :
                /\ reports[i].type = "circular-dependency"
                /\ reports[i].severity = "error"
                /\ reports[i].message = <<"Circular dependency detected">>
                /\ WellFormedCycle(graph, CycleOfReport(reports[i]))
                /\ reports[i].file = CycleOfReport(reports[i])[1]
          /\ \A i, j \in 1..Len(reports) :
                i # j => ~SameCycle(CycleOfReport(reports[i]), CycleOfReport(reports[j]))
    /\ pc = "done" => reports = checkCircularDeps(project)

\* a finding for a cycle through three source files
C18_Witness ==
    /\ pc = "done"
    /\ \E i \in 1..Len(reports) : Len(CycleOfReport(reports[i])) = 4

\* the cycles findCircularDeps returned and those behind the findings
BuilderCycles == Range(cycles)

DetectorCycles == {CycleOfReport(reports[i]) : i \in 1..Len(reports)}

\* C19: for the same source files the cycles behind the circular-deps
\* findings are the cycles buildDependencyGraph and findCircularDeps report.
C19_DetectorsReportSameCycles ==
    pc = "done" =>
        /\ \A c \in BuilderCycles : \E d \in DetectorCycles : SameCycle(c, d)
        /\ \A d \in DetectorCycles : \E c \in BuilderCycles : SameCycle(c, d)


\* the nodes of a graph: its keys and the targets of its edges
GraphNodes(g) == Range(MapKeys(g)) \cup UNION {Range(g[i].deps) : i \in 1..Len(g)}

\* the nodes that one edge leads to from a set of nodes
Successors(g, nodes) == UNION {Range(MapGet(g, n)) : n \in nodes}

\* the nodes that one or more edges lead to from a set of nodes
RECURSIVE ReachableFrom(_, _)
ReachableFrom(g, nodes) ==
    LET more == nodes \cup Successors(g, nodes)
    IN  IF more = nodes THEN nodes ELSE ReachableFrom(g, more)

HasCycle(g) ==
    \E n \in GraphNodes(g) : n \in ReachableFrom(g, Successors(g, {n}))

\* C26: when a detector has finished, its list of cycles is non-empty
\* exactly when the dependency graph has a directed cycle among its edges,
\* a self-import included, whatever the order of the graph's keys.
C26_CyclesReportedIffCyclic ==
    /\ pc = "smells" => ((cycles # <<>>) <=> HasCycle(graph))
    /\ pc = "done" => ((reports # <<>>) <=> HasCycle(graph))

\* a graph whose only cycle is a self-import of the last key, reached after
\* the first keys were visited without a cycle
C26_Witness ==
    /\ pc = "smells"
    /\ Len(graph) = 3
    /\ MapKeys(graph)[3] \in Range(graph[3].deps)
    /\ graph[1].deps # <<>>
    /\ \A i \in 1..2 : MapKeys(graph)[3] \notin Range(graph[i].deps)
    /\ Len(cycles) = 1
    /\ Len(cycles[1]) = 2

----------------------------------------------------------------------------
(* Termination of the traversals *)

\* a step that enters dfs(node) enters a node that no dfs has entered
EntersUnvisitedNode ==
    Len(frames') > Len(frames) =>
        /\ Last(frames').node \notin visited
        /\ Last(frames').node \in visited'

\* during a traversal no node leaves the visited set
VisitedOnlyGrows == (InDfs /\ pc' = pc) => visited \subseteq visited'

\* a traversal that has returned has left both stacks empty
StacksEmptyAfterDfs ==
    pc \in {"smells", "done"} => /\ recursionStack = {}
                                 /\ pathStack = <<>>
                                 /\ frames = <<>>

\* the recursion of the DFS is no deeper than the graph has nodes
StackWithinGraph == InDfs => Len(frames) <= Cardinality(GraphNodes(graph))

\* the recursion of getCallers and getCallees is no deeper than maxDepth
TraceWithinMaxDepth ==
    /\ "up" \in traced => TreeDepth(callers) <= MaxDepthOf(argv)
    /\ "down" \in traced => TreeDepth(callees) <= MaxDepthOf(argv)

\* C29: both traversals end on every finite input, with or without cycles:
\* the cycle-detection DFS enters each node of the graph at most once and
\* returns with an empty recursion stack and an empty path stack, and
\* getCallers and getCallees return for every call relation, direct and
\* mutual recursion included, and every positive maxDepth.
C29_TraversalsTerminate ==
    /\ [][EntersUnvisitedNode /\ VisitedOnlyGrows]_vars
    /\ [](StacksEmptyAfterDfs /\ StackWithinGraph /\ TraceWithinMaxDepth)
    /\ <>(pc = "done")
    /\ <>(tpc = "exit")

\* the detector's DFS has returned from a graph in which every unit is on a
\* cycle
C29_Witness ==
    /\ pc = "done"
    /\ tpc = "exit"
    /\ Len(graph) = 3
    /\ \A i \in 1..Len(graph) : graph[i].file \in ReachableFrom(graph, Successors(graph, {graph[i].file}))
    /\ reports # <<>>
    /\ visited = Range(MapKeys(graph))
    /\ recursionStack = {}
    /\ pathStack = <<>>

----------------------------------------------------------------------------
(* Properties of the missing-jsdoc, deep-nesting and high-complexity findings *)

Undocumented(node) == Len(node.jsDocs) = 0

\* the number of missing-jsdoc findings at a line is 1 when due, else 0
JsDocVerdict(sf, line, due) ==
    Len(FindingsAt("missing-jsdoc", sf, line)) = (IF due THEN 1 ELSE 0)

\* C21: the missing-jsdoc check reports exactly the exported functions
\* without documentation, the exported classes without documentation and the
\* methods of exported classes that are not private and have no
\* documentation; every such finding is a warning.
C21_MissingJsDocFindings ==
    ("missing-jsdoc" \in Options.checks) =>
        /\ \A i \in Passed :
              LET sf == sourceFiles[i]
              IN  /\ \A f \in Range(sf.functions) :
                        JsDocVerdict(sf, f.startLine, f.exportKeyword /\ Undocumented(f))
                  /\ \A k \in 1..Len(sf.classes) :
                        LET cls == sf.classes[k]
                        IN  /\ JsDocVerdict(sf, cls.startLine,
                                            cls.exportKeyword /\ Undocumented(cls))
                            /\ \A m \in Range(cls.methods) :
                                  JsDocVerdict(sf, m.startLine,
                                      /\ cls.exportKeyword
                                      /\ m.scope # "private"
                                      /\ Undocumented(m))
        /\ \A j \in 1..Len(allReports) :
              allReports[j].type = "missing-jsdoc" => allReports[j].severity = "warning"

\* a class that is not exported, with undocumented methods, beside an
\* exported undocumented function: one finding only
C21_Witness ==
    /\ spc = "exit"
    /\ args.checks = <<"missing-jsdoc">>
    /\ Len(sourceFiles) = 1
    /\ Len(sourceFiles[1].classes) = 1
    /\ ~sourceFiles[1].classes[1].exportKeyword
    /\ Len(sourceFiles[1].classes[1].methods) = 2
    /\ \A m \in Range(sourceFiles[1].classes[1].methods) : Undocumented(m) /\ m.scope # "private"
    /\ Len(allReports) = 1


\* the positions of the nodes below a node, the node itself included, each a
\* sequence of child indices
RECURSIVE NodePaths(_)
NodePaths(n) ==
    {<<>>} \cup UNION {{<<i>> \o p : p \in NodePaths(n.children[i])} :
                          i \in 1..Len(n.children)}

RECURSIVE NodeAt(_, _)
NodeAt(n, p) == IF p = <<>> THEN n ELSE NodeAt(n.children[Head(p)], Tail(p))

\* the nesting constructs among a node and its ancestors
ConstructsAround(n, p) ==
    Cardinality({k \in 0..Len(p) : NodeAt(n, SubSeq(p, 1, k)).kind \in NestingKinds})

DeepestChain(n) ==
    LET counts == {ConstructsAround(n, p) : p \in NodePaths(n)}
    IN  CHOOSE m \in counts : \A o \in counts : o <= m

DeepNestingVerdict(d, sf) ==
    LET found == FindingsAt("deep-nesting", sf, d.startLine)
        depth == DeepestChain(d)
        max == Options.thresholds.maxNestingDepth
    IN  /\ depth <= max => Len(found) = 0
        /\ (max < depth /\ depth <= max + 2) =>
              Len(found) = 1 /\ found[1].severity = "warning"
        /\ depth > max + 2 =>
              Len(found) = 1 /\ found[1].severity = "error"

\* C24: the nesting depth of a function or method is the greatest number of
\* if, for, for-in, for-of, while, do-while, try and switch constructs that
\* a node of its body has around it, itself included (blocks and other nodes
\* add nothing); the deep-nesting check reports nothing for a depth of at most
\* maxNestingDepth, a warning for maxNestingDepth + 1 and maxNestingDepth + 2
\* and an error for a greater depth.
C24_NestingDepthAndVerdict ==
    \A i \in Passed : \A d \in DeclarationsOf(sourceFiles[i]) :
        /\ getMaxNestingDepth(d) = DeepestChain(d)
        /\ ("deep-nesting" \in Options.checks) => DeepNestingVerdict(d, sourceFiles[i])

\* a method with a chain if { { switch { if } } } beside a shallower chain of
\* loops, the limit 1 given on the command line: depth 3, a warning
C24_Witness ==
    /\ spc = "exit"
    /\ args.checks = <<"deep-nesting">>
    /\ args.maxNesting = 1
    /\ Len(sourceFiles) = 1
    /\ Len(sourceFiles[1].classes) = 1
    /\ \E m \in Range(sourceFiles[1].classes[1].methods) :
          /\ m.children[1] = Block(<<NestedIn(<<"IfStatement", "Block", "SwitchStatement",
                                                "IfStatement">>),
                                     NestedIn(<<"ForStatement", "ArrowFunction",
                                                "ForInStatement", "ForOfStatement">>)>>)
          /\ getMaxNestingDepth(m) = 3
    /\ Len(allReports) = 1
    /\ allReports[1].type = "deep-nesting"
    /\ allReports[1].severity = "warning"

HighComplexityVerdict(d, sf) ==
    LET found == FindingsAt("high-complexity", sf, d.startLine)
        complexity == getCyclomaticComplexity(d)
        max == Options.thresholds.maxComplexity
    IN  IF "large-functions" \in Options.checks
        THEN /\ Len(found) = 1
             /\ found[1].severity = (IF complexity > 2 * max THEN "error" ELSE "warning")
        ELSE Len(found) = 0

----------------------------------------------------------------------------
(* Properties of the signature extractor *)

\* the loop of main over the source files is over
Extracted == xIdx = Len(xfiles) /\ Len(xfiles) > 0

\* C22: the records of one source file are in the file's source order,
\* whatever their kinds: a declaration that starts on an earlier line has the
\* earlier record.
C22_RecordsInSourceOrder ==
    Extracted =>
        \A i, j \in 1..Len(allSignatures) :
            (i < j /\ allSignatures[i].file = allSignatures[j].file) =>
                allSignatures[i].line < allSignatures[j].line

\* the classes of a source file
XClassesOf(sf) == OfKind(sf, "ClassDeclaration")

\* the methods of a class the private filter lets through
KeptMethods(cls) ==
    SelectSeq(cls.methods, LAMBDA m : xoptions.includePrivate \/ m.scope # "private")

IsRecordOf(sig, sf, kind, name) ==
    /\ sig.file = PathRelative(Cwd, sf.path)
    /\ sig.kind = kind
    /\ sig.name = name

\* the records after position i are those of the kept methods of cls, in order
MethodsFollow(i, sf, cls) ==
    LET kept == KeptMethods(cls)
    IN  /\ i + Len(kept) <= Len(allSignatures)
        /\ \A k \in 1..Len(kept) :
              /\ IsRecordOf(allSignatures[i + k], sf, "method", kept[k].name)
              /\ allSignatures[i + k].className = cls.name
        /\ (i + Len(kept) < Len(allSignatures)) =>
              allSignatures[i + Len(kept) + 1].kind # "method"

\* C23: with the exported-only flag a class that is not exported gives no
\* class record and no method record; a class record is followed at once by
\* the records of its methods that are not filtered, and by no other method
\* record, so the methods of a class stand before the next class record.
C23_FilteredClassSuppressesMethods ==
    Extracted =>
        \A f \in 1..Len(xfiles) : \A c \in 1..Len(XClassesOf(xfiles[f])) :
            LET sf == xfiles[f]
                cls == XClassesOf(sf)[c]
            IN  IF xoptions.exportedOnly /\ ~cls.exportKeyword
                THEN \A i \in 1..Len(allSignatures) :
                        /\ ~IsRecordOf(allSignatures[i], sf, "class", cls.name)
                        /\ ~(/\ allSignatures[i].kind = "method"
                             /\ allSignatures[i].file = PathRelative(Cwd, sf.path)
                             /\ allSignatures[i].className = cls.name)
                ELSE /\ \E i \in 1..Len(allSignatures) :
                           IsRecordOf(allSignatures[i], sf, "class", cls.name)
                     /\ \A i \in 1..Len(allSignatures) :
                           IsRecordOf(allSignatures[i], sf, "class", cls.name) =>
                               MethodsFollow(i, sf, cls)

\* exported-only: class B, not exported, is left out with its method; class
\* A is followed by its public method
C23_Witness ==
    /\ xpc = "exit"
    /\ xoptions.exportedOnly /\ ~xoptions.includePrivate
    /\ Len(xfiles) = 1
    /\ Len(XClassesOf(xfiles[1])) = 2
    /\ XClassesOf(xfiles[1])[1].name = "B"
    /\ XClassesOf(xfiles[1])[2].name = "A"
    /\ Len(allSignatures) = 2
    /\ allSignatures[1].kind = "class" /\ allSignatures[2].kind = "method"

IsFileHeader(entry) == Len(entry) >= 2 /\ entry[1] = "\n" /\ entry[2] = "// "

OpensBlock(entry) == entry # <<>> /\ Last(entry) = " {"

ClosesBlock(entry) == entry # <<>> /\ Head(entry) = "}"

\* the entries from a position on are well nested, a block being open or not
RECURSIVE WellNested(_, _)
WellNested(entries, open) ==
    IF entries = <<>> THEN ~open
    ELSE IF IsFileHeader(Head(entries)) THEN ~open /\ WellNested(Tail(entries), FALSE)
    ELSE IF OpensBlock(Head(entries)) THEN ~open /\ WellNested(Tail(entries), TRUE)
    ELSE IF ClosesBlock(Head(entries)) THEN open /\ WellNested(Tail(entries), FALSE)
    ELSE WellNested(Tail(entries), open)

\* C30: in the grouped listing every class line that opens a block with "{"
\* is closed by a "}" line before the next class line, the next file or the
\* end of the listing.
C30_ClassBlocksWellNested ==
    (xpc = "exit" /\ ~xoptions.jsonOutput) => WellNested(listing, FALSE)

====
